---------------------------- MODULE Spec2Model ----------------------------
(***************************************************************************)
(* Context & generation dispatch engine of the Telegram assistant          *)
(* (src/index.js): the per-user session kept in globalContext, the         *)
(* retry / primary-backup dispatch of a generation request, the memory     *)
(* consolidation pass (generateSummary) and the update handlers that tie   *)
(* them together.                                                          *)
(*                                                                         *)
(* A handler is modelled as a process that runs from one suspension point  *)
(* (an await on a provider call, on the chat platform or on the state      *)
(* file) to the next in one step.  Consecutive awaits between which the    *)
(* handler touches no session state are one step.                          *)
(*                                                                         *)
(* Texts are sequences of tokens: "w" a word, "x" markup the sanitizer     *)
(* removes with its content, " " white space, "notice" the fallback        *)
(* notice, "apology" the fixed apology.  A timestamp is the pair           *)
(* <<calendar day, time of day>> that toLocaleString() prints as           *)
(* "dd.mm.yyyy, hh:mm:ss" on the host the bot is written for (the code     *)
(* splits the date part on '.' and compares it with the 'ru-RU' date       *)
(* string); the time of day is not distinguished.                          *)
(***************************************************************************)
EXTENDS Integers, Sequences, FiniteSets, TLC

(***************************************************************************)
(* Bounds of the model.                                                    *)
(***************************************************************************)
MaxDay == 2          \* calendar days 1..MaxDay
MaxHist == 4         \* a new message is accepted while history has room
MaxInFlight == 2     \* handler slots
MaxCompose == 24     \* room of history where the composer's slice is exercised

(***************************************************************************)
(* Program constants.                                                      *)
(***************************************************************************)
SummaryThreshold == 30
InteractiveRetries == 3
SummaryRetries == 1
DefaultMaxOutputTokens == 700
DefaultTemperatureTenths == 15
RecentLimit == 20

Days == 1..MaxDay
Slots == 1..MaxInFlight
Users == {"u1"}
Everyone == {"u1", "u2"}

GeminiExp == "gemini-exp-1206"
GeminiPro == "gemini-1.5-pro-002"
Deepseek == "deepseek-chat"
SummarizationModelName == "gemini-1.5-flash-8b-001"

Hermione == "Hermione"

EmptyMap == [x \in {} |-> 0]

Put(f, k, v) == [x \in DOMAIN f \cup {k} |-> IF x = k THEN v ELSE f[x]]

Range(s) == {s[i] : i \in DOMAIN s}

(***************************************************************************)
(* Time and text.                                                          *)
(***************************************************************************)
toLocaleString(day) == <<day, "hms">>

toLocaleDateString(day) == day

\* msg.date.split(',')[0]
datePart(dateString) == dateString[1]

sanitizeHtml(text) == SelectSeq(text, LAMBDA c : c # "x")

RECURSIVE trimStart(_)
trimStart(text) ==
    IF text # <<>> /\ Head(text) = " " THEN trimStart(Tail(text)) ELSE text

RECURSIVE trimEnd(_)
trimEnd(text) ==
    IF text # <<>> /\ text[Len(text)] = " "
    THEN trimEnd(SubSeq(text, 1, Len(text) - 1))
    ELSE text

trim(text) == trimEnd(trimStart(text))

FallbackNotice == <<"notice">>
Apology == <<"apology">>

\* The tokens parseInt reads as a number, with their values.
IntOfToken ==
    [t \in {"-1", "0", "1", "2", "3", "9", "100"} |->
        CASE t = "-1" -> 0 - 1 [] t = "0" -> 0 [] t = "1" -> 1
          [] t = "2" -> 2 [] t = "3" -> 3 [] t = "9" -> 9 [] t = "100" -> 100]

NaN == [nan |-> TRUE, value |-> 0]

\* a number that is not NaN
Number(v) == [nan |-> FALSE, value |-> v]

\* parseInt(input, 10): the leading number of the text, NaN when there is none
parseInt(input) ==
    IF input = <<>> THEN NaN
    ELSE IF input[1] \in DOMAIN IntOfToken
    THEN [nan |-> FALSE, value |-> IntOfToken[input[1]]]
    ELSE NaN

\* The tokens parseFloat reads as a number, with their values in tenths.
TenthsOfToken ==
    [t \in {"-1", "0", "0.1", "2.0", "2.1"} |->
        CASE t = "-1" -> 0 - 10 [] t = "0" -> 0 [] t = "0.1" -> 1
          [] t = "2.0" -> 20 [] t = "2.1" -> 21]

\* parseFloat(input): the leading number of the text, in tenths, NaN when
\* there is none
parseFloat(input) ==
    IF input = <<>> THEN NaN
    ELSE IF input[1] \in DOMAIN TenthsOfToken
    THEN [nan |-> FALSE, value |-> TenthsOfToken[input[1]]]
    ELSE NaN

\* !value: NaN and 0 are falsy
falsy(number) == IF number.nan THEN TRUE ELSE number.value = 0

\* isNaN(number) || number <= 0
isInvalidCount(number) == IF number.nan THEN TRUE ELSE number.value <= 0

\* history.splice(-number), number > 0: what is left of history
spliceLastMut(history, number) ==
    IF number >= Len(history) THEN <<>>
    ELSE SubSeq(history, number + 1, Len(history))

spliceLast(history, number) ==
    IF number >= Len(history) THEN <<>>
    ELSE SubSeq(history, 1, Len(history) - number)

(***************************************************************************)
(* Session records.                                                        *)
(***************************************************************************)
NewSession ==
    [history |-> <<>>,
     memories |-> <<>>,
     messageCountSinceSummary |-> 0,
     maxOutputTokens |-> Number(DefaultMaxOutputTokens),
     temperature |-> Number(DefaultTemperatureTenths),
     mainModel |-> GeminiExp,
     backupModel |-> GeminiPro,
     awaitingMessageDeletionCount |-> FALSE]

\* memories is a JS object used as an insertion-ordered map: a sequence of
\* entries [key, text, date] with distinct keys.
memKeys(memories) == {memories[i].key : i \in DOMAIN memories}

memIndex(memories, key) ==
    IF key \in memKeys(memories)
    THEN CHOOSE i \in DOMAIN memories : memories[i].key = key
    ELSE 0

memGet(memories, key) == memories[memIndex(memories, key)]

\* memories[date] = {text, date}: an existing key keeps its place
memSetMut(memories, key, text, date) ==
    LET e == [key |-> key, text |-> text, date |-> date]
    IN IF Len(memories) = 0 THEN <<e>> ELSE [memories EXCEPT ![1] = e]

memSet(memories, key, text, date) ==
    LET e == [key |-> key, text |-> text, date |-> date]
    IN IF key \in memKeys(memories)
       THEN [memories EXCEPT ![memIndex(memories, key)] = e]
       ELSE Append(memories, e)

(***************************************************************************)
(* Provider outcomes and errors.                                           *)
(*                                                                         *)
(* An outcome is what one call of model.generateContent yields: a text, or *)
(* an error with the fields the code inspects (status, the               *)
(* PROHIBITED_CONTENT block reason, the message).  role and attempt record *)
(* the call an error object came from; the code does not read them.        *)
(***************************************************************************)
OkOutcome(text) ==
    [kind |-> "ok", text |-> text, status |-> 0, block |-> FALSE]

ErrOutcome(status, block) ==
    [kind |-> "error", text |-> <<>>, status |-> status, block |-> block]

NoError ==
    [message |-> "none", status |-> 0, block |-> FALSE,
     role |-> "none", attempt |-> 0]

ErrorOf(outcome, role, attempt) ==
    [message |-> "raw", status |-> outcome.status, block |-> outcome.block,
     role |-> role, attempt |-> attempt]

NoResult == [response |-> <<>>, usedBackupModel |-> FALSE]

\* error.status === 503 || error.status === 429
isTransient(error) == error.status = 503 \/ error.status = 429

\* The catch of generateResponseWithRetry: retry or rethrow.
shouldRetryMutNoBudget(error, attempt, retries) == isTransient(error)

shouldRetryMutAlways(error, attempt, retries) == attempt < retries

shouldRetryMutInteractive(error, attempt, retries) ==
    isTransient(error) /\ attempt < InteractiveRetries

shouldRetryMutOneMore(error, attempt, retries) ==
    isTransient(error) /\ attempt <= retries

shouldRetry(error, attempt, retries) ==
    isTransient(error) /\ attempt < retries

\* The catch of generateGeminiResponse: the error it throws for the error
\* generateResponseWithRetry threw.
generateGeminiResponseErrorMut(error) == error

generateGeminiResponseError(error) ==
    IF error.status = 503
    THEN [error EXCEPT !.message = "unavailable", !.status = 0, !.block = FALSE]
    ELSE IF error.status = 429
    THEN [error EXCEPT !.message = "too_many", !.status = 0, !.block = FALSE]
    ELSE IF error.block
    THEN [error EXCEPT !.message = "blocked", !.status = 0, !.block = FALSE]
    ELSE error

\* The inner catch of generateResponseWithBackup: throw error
backupFailureErrorMut(error, backupError) == backupError

backupFailureError(error, backupError) == error

\* result.usedBackupModel = true happens on the backup path only
usedBackupModelMut(role) == TRUE

usedBackupModel(role) == role = "backup"

(***************************************************************************)
(* Turns and day groups.                                                   *)
(*                                                                         *)
(* inMemory is not a field of the program's turn: it records that the turn *)
(* was in the transcript from which the stored memory of its day was       *)
(* generated.                                                              *)
(***************************************************************************)
TurnMut(role, content, date) ==
    [role |-> Hermione, content |-> content, date |-> date, inMemory |-> FALSE]

Turn(role, content, date) ==
    [role |-> role, content |-> content, date |-> date, inMemory |-> FALSE]

RECURSIVE groupMessagesByDay(_)
groupMessagesByDay(messages) ==
    IF messages = <<>> THEN <<>>
    ELSE LET init == SubSeq(messages, 1, Len(messages) - 1)
             msg == messages[Len(messages)]
             date == datePart(msg.date)
             g == groupMessagesByDay(init)
             at == {i \in DOMAIN g : g[i].date = date}
         IN IF at = {}
            THEN Append(g, [date |-> date, messages |-> <<msg>>])
            ELSE LET i == CHOOSE j \in at : TRUE
                 IN [g EXCEPT ![i].messages = Append(@, msg)]

\* groupedMessages[today] || []
groupOf(groupedMessages, date) ==
    LET at == {i \in DOMAIN groupedMessages : groupedMessages[i].date = date}
    IN IF at = {} THEN <<>>
       ELSE groupedMessages[CHOOSE i \in at : TRUE].messages

\* The condition under which generateSummary summarizes a day group.
needsSummaryMutAlways(memories, date, todayStr) == TRUE

needsSummary(memories, date, todayStr) ==
    \/ date \notin memKeys(memories)
    \/ Len(trim(memGet(memories, date).text)) = 0
    \/ date = todayStr

\* The next group, from index `from` on, that the loop summarizes; 0 if none.
nextGroup(groupedMessages, from, memories, todayStr) ==
    LET need == {i \in from..Len(groupedMessages) :
                    needsSummary(memories, groupedMessages[i].date, todayStr)}
    IN IF need = {} THEN 0 ELSE CHOOSE i \in need : \A j \in need : i <= j

RECURSIVE markFirst(_, _, _)
markFirst(history, date, n) ==
    IF n = 0 \/ history = <<>> THEN history
    ELSE IF datePart(Head(history).date) = date
    THEN <<[Head(history) EXCEPT !.inMemory = TRUE]>>
         \o markFirst(Tail(history), date, n - 1)
    ELSE <<Head(history)>> \o markFirst(Tail(history), date, n)

markAll(messages) == [i \in DOMAIN messages |-> [messages[i] EXCEPT !.inMemory = TRUE]]

(***************************************************************************)
(* State.                                                                  *)
(*                                                                         *)
(* globalContext  the in-memory map user id -> session                     *)
(* contextFile    the content of context.json (the last snapshot written)  *)
(* today          the calendar day of the host clock                       *)
(* run            the handlers in flight, one record per slot: the         *)
(*                position of the handler and its local variables          *)
(* audit          per user, what happened since the last consolidation     *)
(*                run (not program state): the turns appended, and whether *)
(*                the session was left alone since that run ended          *)
(***************************************************************************)
(***************************************************************************)
(* The context composer: buildContents (238-259).                          *)
(*                                                                         *)
(* A fragment is the text the code builds from a template; it is kept as   *)
(* the template's name and the values put into it.  The function receives  *)
(* references to session.history and session.memories: its result carries, *)
(* with the fragments, the two collections as the call leaves them.  now   *)
(* is the day that new Date() yields during the call.                      *)
(***************************************************************************)
Fragment(kind, label, date, text) ==
    [kind |-> kind, label |-> label, date |-> date, text |-> text]

\* `Воспоминания за ${date}:\n${memory.text}\n`
memoryFragment(memory) ==
    Fragment("memory", "memories", <<memory.key, "day">>, memory.text)

\* `${message.role}${dateStr}: ${message.content}\n`
turnFragment(role, date, content) == Fragment("turn", role, date, content)

\* 'Гермиона:'
CueFragment == Fragment("cue", Hermione, <<0, "none">>, <<>>)

isMessageFromToday(messageDateString, now) == datePart(messageDateString) = now

\* todayHistory.slice(-20)
sliceLastMut(items, n) ==
    IF Len(items) <= n THEN items ELSE SubSeq(items, 1, n)

sliceLast(items, n) ==
    IF Len(items) <= n THEN items
    ELSE SubSeq(items, Len(items) - n + 1, Len(items))

buildContentsMut(history, memories, userName, userMessage, messageDate, now) ==
    LET todayHistory ==
            SelectSeq(history, LAMBDA msg : isMessageFromToday(msg.date, now))
        recentHistory == sliceLast(todayHistory, RecentLimit)
    IN [contents |->
            [i \in 1..Len(memories) |-> memoryFragment(memories[i])]
            \o [i \in 1..Len(recentHistory) |->
                   turnFragment(recentHistory[i].role, recentHistory[i].date,
                                recentHistory[i].content)]
            \o <<turnFragment(userName, messageDate, userMessage), CueFragment>>,
        history |-> todayHistory,
        memories |-> memories]

buildContents(history, memories, userName, userMessage, messageDate, now) ==
    LET todayHistory ==
            SelectSeq(history, LAMBDA msg : isMessageFromToday(msg.date, now))
        recentHistory == sliceLast(todayHistory, RecentLimit)
    IN [contents |->
            [i \in 1..Len(memories) |-> memoryFragment(memories[i])]
            \o [i \in 1..Len(recentHistory) |->
                   turnFragment(recentHistory[i].role, recentHistory[i].date,
                                recentHistory[i].content)]
            \o <<turnFragment(userName, messageDate, userMessage), CueFragment>>,
        history |-> history,
        memories |-> memories]

VARIABLES globalContext, contextFile, today, run, audit

vars == <<globalContext, contextFile, today, run, audit>>

NoPass ==
    [status |-> "none", today |-> 0, groupedMessages |-> <<>>, idx |-> 0,
     attempt |-> 0, result |-> <<>>, error |-> NoError, attempted |-> <<>>, needed |-> {}, successive |-> FALSE,
     before |-> <<>>, memoriesBefore |-> <<>>, dropped |-> <<>>]

\* One call of buildContents: its arguments, the day of the call, its result.
NoCall ==
    [history |-> <<>>, memories |-> <<>>, userName |-> "none",
     userMessage |-> <<>>, messageDate |-> <<0, "hms">>, now |-> 0,
     contents |-> <<>>]

\* What a handler found in the session when it began.
NoEntry ==
    [history |-> <<>>, memories |-> <<>>, messageCountSinceSummary |-> 0,
     mainModel |-> "none", backupModel |-> "none"]

entryOf(session) ==
    [history |-> session.history, memories |-> session.memories,
     messageCountSinceSummary |-> session.messageCountSinceSummary,
     mainModel |-> session.mainModel, backupModel |-> session.backupModel]

IdleRun ==
    [pc |-> "idle", kind |-> "none", user |-> "none",
     entry |-> NoEntry, call |-> NoCall, prevCall |-> NoCall,
     requested |-> "none", cleaned |-> {},
     userMessage |-> <<>>, messageDate |-> <<0, "hms">>,
     mainModelName |-> "none", backupModelName |-> "none",
     role |-> "none", attempt |-> 0, retries |-> 0,
     mainError |-> NoError, backupError |-> NoError, calls |-> <<>>, result |-> NoResult,
     botReply |-> <<>>, sending |-> "none", caught |-> NoError,
     shown |-> <<>>, counted |-> 0, appendedThen |-> 0, pass |-> NoPass]

NoAudit == [appended |-> 0, untouched |-> FALSE, lastCall |-> NoCall]

Init ==
    /\ globalContext = EmptyMap
    /\ contextFile = EmptyMap
    /\ today = 1
    /\ run = [s \in Slots |-> IdleRun]
    /\ audit = [u \in Everyone |-> NoAudit]

\* A new update takes the lowest free slot.
FreeSlot(s) ==
    /\ run[s].pc = "idle"
    /\ \A t \in Slots : t < s => run[t].pc # "idle"

\* bot.use: the session of a first contact is created with the defaults
sessionMiddlewareMut(context, userId) ==
    IF userId \in DOMAIN context THEN context
    ELSE Put(EmptyMap, userId, NewSession)

sessionMiddleware(context, userId) ==
    IF userId \in DOMAIN context THEN context
    ELSE Put(context, userId, NewSession)

\* saveContext: the whole map overwrites the file
saveContext(context) == context

(***************************************************************************)
(* generateSummary.                                                        *)
(*                                                                         *)
(* pass holds the locals of a pass (today, groupedMessages, the index of   *)
(* the group whose summary is awaited) and, for the properties, what the   *)
(* pass did: the days it called the provider for, the days that needed a   *)
(* summary when it began, history and memories before it, whether it       *)
(* follows another pass with the session untouched in between, the turns   *)
(* it dropped.  The local `memories` is the session's own object (line 1137), *)
(* so a store is visible in the session at once.                           *)
(***************************************************************************)
\* session.history = groupedMessages[today] || []
historyAfterPassMut(groupedMessages, todayStr) ==
    IF Len(groupedMessages) = 0 THEN <<>> ELSE groupedMessages[1].messages

historyAfterPass(groupedMessages, todayStr) == groupOf(groupedMessages, todayStr)

\* The for loop from group `from` up to the next await: the call for the next
\* group to summarize, or lines 1194-1196 when no group is left.
passContinue(session, pass, from) ==
    LET i == nextGroup(pass.groupedMessages, from, session.memories, pass.today)
    IN IF i # 0
       THEN [session |-> session,
             pass |-> [pass EXCEPT !.idx = i, !.attempt = 1,
                          !.attempted = Append(@, pass.groupedMessages[i].date)],
             saved |-> FALSE]
       ELSE [session |-> [session EXCEPT
                 !.history = historyAfterPass(pass.groupedMessages, pass.today)],
             pass |-> [pass EXCEPT !.status = "completed", !.idx = 0,
                          !.dropped = SelectSeq(session.history,
                              LAMBDA t : datePart(t.date) # pass.today)],
             saved |-> TRUE]

\* Lines 1128-1137, then the loop.
passBegin(session, now, untouched) ==
    IF Len(session.history) = 0
    THEN [session |-> session,
          pass |-> [NoPass EXCEPT !.status = "empty", !.today = now,
                       !.successive = untouched,
                       !.memoriesBefore = session.memories],
          saved |-> FALSE]
    ELSE LET grouped == groupMessagesByDay(session.history)
             todayStr == toLocaleDateString(now)
         IN passContinue(session,
                [NoPass EXCEPT !.status = "running", !.today = todayStr,
                    !.groupedMessages = grouped,
                    !.needed = {grouped[i].date : i \in
                        {j \in DOMAIN grouped :
                            needsSummary(session.memories, grouped[j].date, todayStr)}},
                    !.successive = untouched,
                    !.before = session.history,
                    !.memoriesBefore = session.memories],
                1)

\* The continuation of the awaited summarization call (lines 1163-1191),
\* made through generateResponseWithRetry with its default budget: an error
\* it rethrows leaves the loop for the catch of line 1199.
passResumeMut(session, pass, outcome, now) ==
    IF outcome.kind = "error"
    THEN [session |-> [session EXCEPT
              !.history = historyAfterPass(pass.groupedMessages, pass.today)],
          pass |-> [pass EXCEPT !.status = "failed",
                       !.error = ErrorOf(outcome, "summarization", pass.attempt)],
          saved |-> FALSE]
    ELSE LET group == pass.groupedMessages[pass.idx]
         IN passContinue(
                [session EXCEPT
                    !.memories = memSet(@, group.date, sanitizeHtml(outcome.text),
                                        toLocaleString(now)),
                    !.history = markFirst(@, group.date, Len(group.messages))],
                [pass EXCEPT !.groupedMessages[pass.idx].messages = markAll(@),
                    !.result = outcome.text],
                pass.idx + 1)

passResume(session, pass, outcome, now) ==
    IF outcome.kind = "error"
    THEN LET error == ErrorOf(outcome, "summarization", pass.attempt)
         IN IF shouldRetry(error, pass.attempt, SummaryRetries)
            THEN [session |-> session,
                  pass |-> [pass EXCEPT !.attempt = @ + 1],
                  saved |-> FALSE]
            ELSE [session |-> session,
                  pass |-> [pass EXCEPT !.status = "failed", !.error = error],
                  saved |-> FALSE]
    ELSE LET group == pass.groupedMessages[pass.idx]
             summary == sanitizeHtml(outcome.text)
         IN passContinue(
                [session EXCEPT
                    !.memories = memSet(@, group.date, summary, toLocaleString(now)),
                    !.history = markFirst(@, group.date, Len(group.messages))],
                [pass EXCEPT !.groupedMessages[pass.idx].messages = markAll(@),
                    !.result = outcome.text],
                pass.idx + 1)

(***************************************************************************)
(* The text handler: bot.chatType('private').on('message:text').           *)
(***************************************************************************)
\* Lines 1345-1367: the reply chosen for a result.
botReplyOf(result) ==
    LET raw == IF result.usedBackupModel
               THEN FallbackNotice \o result.response
               ELSE result.response
        clean == sanitizeHtml(raw)
    IN IF Len(trim(clean)) = 0 THEN Apology ELSE clean

\* Lines 1390-1397: the message shown for a caught error.  The messages
\* generateGeminiResponse throws for 503 and 429 carry the words the handler
\* looks for; the one it throws for a block does not carry
\* 'PROHIBITED_CONTENT'.
errorMessage(error) ==
    IF error.message = "raw_prohibited" THEN "error_prohibited"
    ELSE IF error.message = "unavailable" THEN "error_unavailable"
    ELSE IF error.message = "too_many" THEN "error_too_many"
    ELSE "error_generic"

\* session.messageCountSinceSummary >= 30
thresholdReachedMut(count) == count > SummaryThreshold

thresholdReached(count) == count >= SummaryThreshold

\* What follows a pass that has returned, in its caller: line 1384 in the text
\* handler, lines 854-869 in refresh_memories.
afterPassMut(h, r) ==
    IF r.pass.status = "running"
    THEN [session |-> r.session, saved |-> r.saved,
          run |-> [h EXCEPT !.pc = "summarize", !.pass = r.pass]]
    ELSE IF h.kind = "text" /\ r.pass.status = "failed"
    THEN [session |-> r.session, saved |-> r.saved,
          run |-> [h EXCEPT !.pc = "deliver", !.sending = "error",
                      !.caught = r.pass.error, !.pass = r.pass]]
    ELSE IF h.kind = "text"
    THEN [session |-> [r.session EXCEPT !.messageCountSinceSummary = 0],
          saved |-> r.saved,
          run |-> [h EXCEPT !.pc = "deliver", !.sending = "reply",
                      !.pass = r.pass]]
    ELSE [session |-> r.session, saved |-> r.saved,
          run |-> [h EXCEPT !.pc = "persist", !.pass = r.pass,
                      !.shown = @ \o <<"memories_updated",
                          IF Len(r.session.memories) > 0
                          THEN "memories_list" ELSE "no_memories">>]]

afterPass(h, r) ==
    IF r.pass.status = "running"
    THEN [session |-> r.session, saved |-> r.saved,
          run |-> [h EXCEPT !.pc = "summarize", !.pass = r.pass]]
    ELSE IF h.kind = "text"
    THEN [session |-> [r.session EXCEPT !.messageCountSinceSummary = 0],
          saved |-> r.saved,
          run |-> [h EXCEPT !.pc = "deliver", !.sending = "reply",
                      !.pass = r.pass]]
    ELSE [session |-> r.session, saved |-> r.saved,
          run |-> [h EXCEPT !.pc = "persist", !.pass = r.pass,
                      !.shown = @ \o <<"memories_updated",
                          IF Len(r.session.memories) > 0
                          THEN "memories_list" ELSE "no_memories">>]]

\* Lines 1341-1385: the reply is chosen, the two turns are appended, the
\* counter grows and, at the threshold, a pass begins.
textAfterGeneration(session, h, now) ==
    LET reply == botReplyOf(h.result)
        count == session.messageCountSinceSummary + 2
        s1 == [session EXCEPT
                  !.history = @ \o <<Turn(h.user, h.userMessage, h.messageDate),
                                     Turn(Hermione, reply, toLocaleString(now))>>,
                  !.messageCountSinceSummary = count]
        h1 == [h EXCEPT !.botReply = reply, !.counted = count]
    IN IF thresholdReached(count)
       THEN afterPass(h1, passBegin(s1, now, FALSE))
       ELSE [session |-> s1, saved |-> FALSE,
             run |-> [h1 EXCEPT !.pc = "deliver", !.sending = "reply"]]

\* audit after a step of handler h that ended as h2
auditAfter(a, appended, h, h2) ==
    LET a1 == IF appended
              THEN [a EXCEPT !.appended = @ + 2, !.untouched = FALSE,
                       !.lastCall = NoCall]
              ELSE a
    IN IF h2.pass.status \in {"completed", "failed", "empty"}
          /\ h.pass.status \in {"none", "running"}
       THEN [a1 EXCEPT !.appended = 0, !.untouched = TRUE]
       ELSE a1

\* Lines 1293-1312: the text is the number of turns to delete.  The flag is
\* cleared at line 1310, after the awaited notice.
deletionBranch(session, text) ==
    LET input == trim(text)
        number == parseInt(input)
    IN IF isInvalidCount(number)
       THEN [session |-> session, saved |-> FALSE, notice |-> "invalid_count"]
       ELSE IF Len(session.history) = 0
       THEN [session |-> session, saved |-> FALSE, notice |-> "no_history"]
       ELSE [session |-> [session EXCEPT !.history = spliceLast(@, number.value)],
             saved |-> TRUE, notice |-> "deleted_count"]

callOfMut(session, userName, userMessage, messageDate, now) ==
    LET built == buildContents(session.history, session.memories, userName,
                               userMessage, messageDate, now)
    IN [call |-> [history |-> session.history, memories |-> session.memories,
                  userName |-> userName, userMessage |-> userMessage,
                  messageDate |-> messageDate, now |-> now,
                  contents |-> built.contents],
        session |-> [session EXCEPT
                        !.history = Append(built.history,
                                       Turn(userName, userMessage, messageDate)),
                        !.memories = built.memories]]

callOf(session, userName, userMessage, messageDate, now) ==
    LET built == buildContents(session.history, session.memories, userName,
                               userMessage, messageDate, now)
    IN [call |-> [history |-> session.history, memories |-> session.memories,
                  userName |-> userName, userMessage |-> userMessage,
                  messageDate |-> messageDate, now |-> now,
                  contents |-> built.contents],
        session |-> [session EXCEPT !.history = built.history,
                                    !.memories = built.memories]]

ReceiveText(s, u, text, msgDay) ==
    /\ FreeSlot(s)
    /\ LET context == sessionMiddleware(globalContext, u)
           session == context[u]
           entry == entryOf(session)
       IN IF session.awaitingMessageDeletionCount
          THEN LET r == deletionBranch(session, text)
               IN /\ globalContext' = [context EXCEPT ![u] = r.session]
                  /\ contextFile' = IF r.saved THEN saveContext(globalContext')
                                    ELSE contextFile
                  /\ run' = [run EXCEPT ![s] =
                         [IdleRun EXCEPT !.pc = "deliver", !.kind = "deletion",
                             !.user = u, !.entry = entry, !.userMessage = text,
                             !.sending = r.notice]]
                  /\ audit' = [audit EXCEPT ![u].untouched =
                                   IF r.saved THEN FALSE ELSE @]
          ELSE LET c == callOf(session, u, text, toLocaleString(msgDay), today)
               IN /\ globalContext' = [context EXCEPT ![u] = c.session]
                  /\ run' = [run EXCEPT ![s] =
                         [IdleRun EXCEPT !.pc = "generate", !.kind = "text",
                             !.user = u, !.entry = entry, !.call = c.call,
                             !.prevCall = audit[u].lastCall,
                             !.userMessage = text,
                             !.messageDate = toLocaleString(msgDay),
                             !.mainModelName = session.mainModel,
                             !.backupModelName = session.backupModel,
                             !.role = "main", !.attempt = 1,
                             !.retries = InteractiveRetries]]
                  /\ audit' = [audit EXCEPT ![u].lastCall = c.call]
                  /\ UNCHANGED contextFile
    /\ UNCHANGED today

\* The finally blocks of generateResponseWithBackup (1270-1274): the adapters
\* cleanupModel has been called for when the dispatch is left after a call of
\* the adapter `role`.  The inner finally belongs to the try that is entered
\* only after the primary has failed.
cleanedOnExit(role) ==
    IF role = "main" THEN {"main"} ELSE {"backup", "main"}

\* One call of model.generateContent of the dispatch returns or throws:
\* generateResponseWithRetry (1108-1124), generateGeminiResponse (1210-1229),
\* generateResponseWithBackup (1256-1275) and the handler up to its next await.
ModelResponds(s, outcome) ==
    /\ run[s].pc = "generate"
    /\ LET h == run[s]
           u == h.user
           session == globalContext[u]
           h0 == [h EXCEPT !.calls = Append(@,
                     [role |-> h.role,
                      model |-> IF h.role = "main" THEN h.mainModelName
                                ELSE h.backupModelName,
                      attempt |-> h.attempt, kind |-> outcome.kind,
                      status |-> outcome.status, block |-> outcome.block,
                      text |-> outcome.text])]
           error == ErrorOf(outcome, h.role, h.attempt)
       IN IF outcome.kind = "ok"
          THEN LET r == textAfterGeneration(session,
                            [h0 EXCEPT !.result =
                                [response |-> outcome.text,
                                 usedBackupModel |-> usedBackupModel(h.role)],
                                !.cleaned = cleanedOnExit(h.role),
                                !.appendedThen = audit[u].appended + 2],
                            today)
               IN /\ globalContext' = [globalContext EXCEPT ![u] = r.session]
                  /\ run' = [run EXCEPT ![s] = r.run]
                  /\ contextFile' = IF r.saved THEN saveContext(globalContext')
                                    ELSE contextFile
                  /\ audit' = [audit EXCEPT ![u] = auditAfter(@, TRUE, h, r.run)]
          ELSE /\ IF shouldRetry(error, h.attempt, h.retries)
                  THEN run' = [run EXCEPT ![s] = [h0 EXCEPT !.attempt = @ + 1]]
                  ELSE IF h.role = "main"
                  THEN run' = [run EXCEPT ![s] =
                           [h0 EXCEPT !.mainError = generateGeminiResponseError(error),
                               !.role = "backup", !.attempt = 1]]
                  ELSE run' = [run EXCEPT ![s] =
                           [h0 EXCEPT
                               !.backupError = generateGeminiResponseError(error),
                               !.caught = backupFailureError(h.mainError,
                                           generateGeminiResponseError(error)),
                               !.cleaned = cleanedOnExit(h.role),
                               !.pc = "deliver", !.sending = "error"]]
               /\ UNCHANGED <<globalContext, contextFile, audit>>
    /\ UNCHANGED today

\* The summarization call of a pass returns or throws.
SummaryResponds(s, outcome) ==
    /\ run[s].pc = "summarize"
    /\ LET h == run[s]
           u == h.user
           h0 == [h EXCEPT !.calls = Append(@,
                     [role |-> "summarization", model |-> SummarizationModelName,
                      attempt |-> h.pass.attempt, kind |-> outcome.kind,
                      status |-> outcome.status, block |-> outcome.block,
                      text |-> outcome.text])]
           r == afterPass(h0, passResume(globalContext[u], h.pass, outcome, today))
       IN /\ globalContext' = [globalContext EXCEPT ![u] = r.session]
          /\ run' = [run EXCEPT ![s] = r.run]
          /\ contextFile' = IF r.saved THEN saveContext(globalContext')
                            ELSE contextFile
          /\ audit' = [audit EXCEPT ![u] = auditAfter(@, FALSE, h, r.run)]
    /\ UNCHANGED today

\* sendLongMessage(ctx, botReply) (1387) or ctx.reply(errorMessage) (1398)
\* returns or throws.  A reply that cannot be delivered is caught at 1388; an
\* error message that cannot be delivered leaves the handler and the
\* middleware (bot.catch, 1948): nothing is written.
\* In the deletion branch (1293-1312) the notice is awaited outside any try:
\* delivered, line 1310 clears the flag; not delivered, the handler is left
\* with the flag as it was.
Deliver(s, delivered) ==
    /\ run[s].pc = "deliver"
    /\ LET h == run[s]
       IN IF h.kind = "deletion"
          THEN IF delivered
               THEN /\ run' = [run EXCEPT ![s] =
                           [h EXCEPT !.pc = "persist",
                               !.shown = Append(@, h.sending)]]
                    /\ globalContext' = [globalContext EXCEPT
                           ![h.user].awaitingMessageDeletionCount = FALSE]
               ELSE /\ run' = [run EXCEPT ![s] = IdleRun]
                    /\ UNCHANGED globalContext
          ELSE /\ IF delivered
                  THEN run' = [run EXCEPT ![s] =
                           [h EXCEPT !.pc = "persist",
                               !.shown = Append(@,
                                   IF h.sending = "reply" THEN "reply"
                                   ELSE errorMessage(h.caught))]]
                  ELSE IF h.sending = "reply"
                  THEN run' = [run EXCEPT ![s] =
                           [h EXCEPT !.sending = "error",
                               !.caught = [NoError EXCEPT !.message = "raw",
                                              !.role = "platform"]]]
                  ELSE run' = [run EXCEPT ![s] = IdleRun]
               /\ UNCHANGED globalContext
    /\ UNCHANGED <<contextFile, today, audit>>

\* bot.use, line 226: the snapshot written when the handler has returned.
Persist(s) ==
    /\ run[s].pc = "persist"
    /\ contextFile' = saveContext(globalContext)
    /\ run' = [run EXCEPT ![s] = IdleRun]
    /\ UNCHANGED <<globalContext, today, audit>>

(***************************************************************************)
(* Callback handlers.                                                      *)
(***************************************************************************)
\* bot.callbackQuery('refresh_memories'), lines 823-888
ReceiveRefresh(s, u) ==
    /\ FreeSlot(s)
    /\ LET context == sessionMiddleware(globalContext, u)
           session == context[u]
           h == [IdleRun EXCEPT !.kind = "refresh", !.user = u]
       IN IF Len(session.history) = 0
          THEN /\ globalContext' = context
               /\ run' = [run EXCEPT ![s] =
                      [h EXCEPT !.pc = "persist", !.shown = <<"no_history">>]]
               /\ UNCHANGED <<contextFile, audit>>
          ELSE LET r == afterPass([h EXCEPT !.shown = <<"updating">>],
                            passBegin(session, today, audit[u].untouched))
               IN /\ globalContext' = [context EXCEPT ![u] = r.session]
                  /\ run' = [run EXCEPT ![s] = r.run]
                  /\ contextFile' = IF r.saved THEN saveContext(globalContext')
                                    ELSE contextFile
                  /\ audit' = [audit EXCEPT ![u] = auditAfter(@, FALSE, h, r.run)]
    /\ UNCHANGED today

\* bot.callbackQuery('confirm_clear_memories'), lines 915-941
ReceiveClearAllMut(s, u) ==
    /\ FreeSlot(s)
    /\ LET context == sessionMiddleware(globalContext, u)
       IN /\ globalContext' = [context EXCEPT ![u] =
                 [NewSession EXCEPT
                     !.awaitingMessageDeletionCount =
                         context[u].awaitingMessageDeletionCount]]
          /\ contextFile' = saveContext(globalContext')
          /\ run' = [run EXCEPT ![s] =
                 [IdleRun EXCEPT !.pc = "persist", !.kind = "clear_all",
                     !.user = u, !.entry = entryOf(context[u]),
                     !.shown = <<"cleared">>]]
          /\ audit' = [audit EXCEPT ![u] = NoAudit]
    /\ UNCHANGED today

ReceiveClearAll(s, u) ==
    /\ FreeSlot(s)
    /\ LET context == sessionMiddleware(globalContext, u)
       IN /\ globalContext' = [context EXCEPT ![u] =
                 [@ EXCEPT !.history = <<>>, !.memories = <<>>,
                     !.messageCountSinceSummary = 0]]
          /\ contextFile' = saveContext(globalContext')
          /\ run' = [run EXCEPT ![s] =
                 [IdleRun EXCEPT !.pc = "persist", !.kind = "clear_all",
                     !.user = u, !.entry = entryOf(context[u]),
                     !.shown = <<"cleared">>]]
          /\ audit' = [audit EXCEPT ![u] = NoAudit]
    /\ UNCHANGED today

\* bot.callbackQuery('delete_today_messages'), lines 972-995
ReceiveDeleteTodayMut(s, u) ==
    /\ FreeSlot(s)
    /\ LET context == sessionMiddleware(globalContext, u)
           session == context[u]
           h == [IdleRun EXCEPT !.pc = "persist", !.kind = "delete_today",
                    !.user = u, !.entry = entryOf(session)]
       IN IF Len(session.history) = 0
          THEN /\ globalContext' = context
               /\ run' = [run EXCEPT ![s] = [h EXCEPT !.shown = <<"no_history">>]]
               /\ UNCHANGED <<contextFile, audit>>
          ELSE /\ globalContext' = [context EXCEPT ![u].history = <<>>]
               /\ contextFile' = saveContext(globalContext')
               /\ run' = [run EXCEPT ![s] = [h EXCEPT !.shown = <<"deleted_today">>]]
               /\ audit' = [audit EXCEPT ![u].untouched = FALSE]
    /\ UNCHANGED today

ReceiveDeleteToday(s, u) ==
    /\ FreeSlot(s)
    /\ LET context == sessionMiddleware(globalContext, u)
           session == context[u]
           h == [IdleRun EXCEPT !.pc = "persist", !.kind = "delete_today",
                    !.user = u, !.entry = entryOf(session)]
       IN IF Len(session.history) = 0
          THEN /\ globalContext' = context
               /\ run' = [run EXCEPT ![s] = [h EXCEPT !.shown = <<"no_history">>]]
               /\ UNCHANGED <<contextFile, audit>>
          ELSE /\ globalContext' = [context EXCEPT ![u].history =
                      SelectSeq(@, LAMBDA msg :
                          datePart(msg.date) # toLocaleDateString(today))]
               /\ contextFile' = saveContext(globalContext')
               /\ run' = [run EXCEPT ![s] = [h EXCEPT !.shown = <<"deleted_today">>]]
               /\ audit' = [audit EXCEPT ![u].untouched = FALSE]
    /\ UNCHANGED today

\* bot.callbackQuery('set_main_model_*'), lines 640-710: the check and the
\* assignment, up to the handler's own saveContext.
setMainModelMut(session, newMainModel) ==
    [session |-> [session EXCEPT !.mainModel = newMainModel],
     saved |-> newMainModel # session.backupModel,
     notice |-> IF newMainModel = session.backupModel
                THEN "same_model_rejected" ELSE "main_model_set"]

setMainModel(session, newMainModel) ==
    IF newMainModel = session.backupModel
    THEN [session |-> session, saved |-> FALSE, notice |-> "same_model_rejected"]
    ELSE [session |-> [session EXCEPT !.mainModel = newMainModel],
          saved |-> TRUE, notice |-> "main_model_set"]

\* bot.callbackQuery('set_backup_model_*'), lines 713-783
setBackupModelMut(session, newBackupModel) ==
    [session |-> [session EXCEPT !.backupModel = newBackupModel],
     saved |-> TRUE, notice |-> "backup_model_set"]

setBackupModel(session, newBackupModel) ==
    IF newBackupModel = session.mainModel
    THEN [session |-> session, saved |-> FALSE, notice |-> "same_model_rejected"]
    ELSE [session |-> [session EXCEPT !.backupModel = newBackupModel],
          saved |-> TRUE, notice |-> "backup_model_set"]

setModelStep(s, u, kind, newModel, r, entry, context) ==
    /\ globalContext' = [context EXCEPT ![u] = r.session]
    /\ contextFile' = IF r.saved THEN saveContext(globalContext')
                      ELSE contextFile
    /\ run' = [run EXCEPT ![s] =
           [IdleRun EXCEPT !.pc = "persist", !.kind = kind, !.user = u,
               !.entry = entry, !.requested = newModel,
               !.shown = <<r.notice>>]]
    /\ UNCHANGED <<today, audit>>

ReceiveSetMainModel(s, u, newMainModel) ==
    /\ FreeSlot(s)
    /\ LET context == sessionMiddleware(globalContext, u)
       IN setModelStep(s, u, "set_main_model", newMainModel,
                       setMainModel(context[u], newMainModel),
                       entryOf(context[u]), context)

ReceiveSetBackupModel(s, u, newBackupModel) ==
    /\ FreeSlot(s)
    /\ LET context == sessionMiddleware(globalContext, u)
       IN setModelStep(s, u, "set_backup_model", newBackupModel,
                       setBackupModel(context[u], newBackupModel),
                       entryOf(context[u]), context)

\* bot.callbackQuery('delete_specific_number'), lines 997-1004
ReceiveDeleteSpecificNumber(s, u) ==
    /\ FreeSlot(s)
    /\ LET context == sessionMiddleware(globalContext, u)
       IN /\ globalContext' = [context EXCEPT
                 ![u].awaitingMessageDeletionCount = TRUE]
          /\ run' = [run EXCEPT ![s] =
                 [IdleRun EXCEPT !.pc = "persist", !.kind = "delete_count",
                     !.user = u, !.shown = <<"ask_count">>]]
    /\ UNCHANGED <<contextFile, today, audit>>

\* Midnight.
Tick ==
    /\ today < MaxDay
    /\ today' = today + 1
    /\ UNCHANGED <<globalContext, contextFile, run, audit>>

(***************************************************************************)
(* Inputs.                                                                 *)
(***************************************************************************)
\* the day a message was sent: the day it is handled or the day before
MessageDays == {d \in Days : d <= today /\ today <= d + 1}

ProviderErrors ==
    {ErrOutcome(503, FALSE), ErrOutcome(429, FALSE), ErrOutcome(400, FALSE),
     ErrOutcome(0, TRUE)}

\* updates are handled one at a time
Sequential == \A s \in Slots : run[s].pc = "idle"

HasRoom(u) ==
    IF u \in DOMAIN globalContext
    THEN Len(globalContext[u].history) + 2 <= MaxHist
    ELSE TRUE

(***************************************************************************)
(* Spec: the session of a user from the first contact on, every handler,   *)
(* one reply text and one failure per provider.                            *)
(***************************************************************************)
ChatOutcomes == {OkOutcome(<<"w">>), ErrOutcome(503, FALSE)}

SummaryOutcomes == {OkOutcome(<<"w">>), ErrOutcome(503, FALSE)}

Next ==
    \/ \E s \in Slots, u \in Users :
          Sequential /\ HasRoom(u) /\ ReceiveText(s, u, <<"w">>, today)
    \/ \E s \in Slots, o \in ChatOutcomes : ModelResponds(s, o)
    \/ \E s \in Slots, o \in SummaryOutcomes : SummaryResponds(s, o)
    \/ \E s \in Slots, ok \in BOOLEAN : Deliver(s, ok)
    \/ \E s \in Slots : Persist(s)
    \/ \E s \in Slots, u \in Users : Sequential /\ ReceiveRefresh(s, u)
    \/ \E s \in Slots, u \in Users : Sequential /\ ReceiveClearAll(s, u)
    \/ \E s \in Slots, u \in Users : Sequential /\ ReceiveDeleteToday(s, u)
    \/ Tick

Spec == Init /\ [][Next]_vars

(***************************************************************************)
(* SpecDispatch: the dispatch of generation requests, every provider       *)
(* outcome on every attempt, for the interactive path (budget 3, primary   *)
(* then backup) and the summarization path (budget 1).                     *)
(***************************************************************************)
DispatchTexts == {<<"w">>, <<"x">>}

DispatchOutcomes == {OkOutcome(t) : t \in DispatchTexts} \cup ProviderErrors

NextDispatch ==
    \/ \E s \in Slots, u \in Users :
          Sequential /\ HasRoom(u) /\ ReceiveText(s, u, <<"w">>, today)
    \/ \E s \in Slots, o \in DispatchOutcomes : ModelResponds(s, o)
    \/ \E s \in Slots, o \in DispatchOutcomes : SummaryResponds(s, o)
    \/ \E s \in Slots, ok \in BOOLEAN : Deliver(s, ok)
    \/ \E s \in Slots : Persist(s)
    \/ \E s \in Slots, u \in Users : Sequential /\ ReceiveRefresh(s, u)

SpecDispatch == Init /\ [][NextDispatch]_vars

(***************************************************************************)
(* SpecConsol: memory consolidation over the days, every outcome of the    *)
(* summarization call (an empty, a blank or one of two summaries, or an    *)
(* error), messages sent before midnight and handled after it, and the     *)
(* operations that empty history or memories.                              *)
(***************************************************************************)
SummaryTexts == {<<>>, <<" ">>, <<"w">>}

ConsolOutcomes == {OkOutcome(t) : t \in SummaryTexts} \cup {ErrOutcome(503, FALSE)}

NextConsol ==
    \/ \E s \in Slots, u \in Users, d \in MessageDays :
          Sequential /\ HasRoom(u) /\ ReceiveText(s, u, <<"w">>, d)
    \/ \E s \in Slots : ModelResponds(s, OkOutcome(<<"w">>))
    \/ \E s \in Slots, o \in ConsolOutcomes : SummaryResponds(s, o)
    \/ \E s \in Slots : Deliver(s, TRUE)
    \/ \E s \in Slots : Persist(s)
    \/ \E s \in Slots, u \in Users : Sequential /\ ReceiveRefresh(s, u)
    \/ \E s \in Slots, u \in Users : Sequential /\ ReceiveClearAll(s, u)
    \/ Tick

SpecConsol == Init /\ [][NextConsol]_vars

(***************************************************************************)
(* Properties of the dispatch (checked under SpecDispatch).                *)
(***************************************************************************)
Budget(role) == IF role = "summarization" THEN SummaryRetries ELSE InteractiveRetries

\* the call a handler is waiting for
Awaited(h) ==
    IF h.pc = "generate" THEN [role |-> h.role, attempt |-> h.attempt]
    ELSE IF h.pc = "summarize"
    THEN [role |-> "summarization", attempt |-> h.pass.attempt]
    ELSE [role |-> "none", attempt |-> 0]

CallsOf(h, role) == SelectSeq(h.calls, LAMBDA c : c.role = role)

Last(seq) == seq[Len(seq)]

CallError(c) == ErrorOf(c, c.role, c.attempt)

TransientCall(c) == c.kind = "error" /\ c.status \in {503, 429}

\* C1: when the primary provider has failed and the backup provider has
\* failed too, the error generateResponseWithBackup raises to the handler is
\* the error of the primary (the one generateGeminiResponse threw for the
\* last primary call), never the error of the backup.
C1_PrimaryErrorRaised ==
    \A s \in Slots :
        LET h == run[s]
        IN h.backupError # NoError =>
              /\ CallsOf(h, "main") # <<>>
              /\ h.caught = generateGeminiResponseError(
                                CallError(Last(CallsOf(h, "main"))))
              /\ h.caught.role = "main"
              /\ h.caught # h.backupError

\* the primary ended 503, the backup ended 429, the handler caught the 503 one
C1_Witness ==
    \E s \in Slots :
        /\ run[s].backupError.message = "too_many"
        /\ run[s].mainError.message = "unavailable"
        /\ run[s].caught.message = "unavailable"
        /\ run[s].pc = "persist"

\* C2: a dispatch result is tagged usedBackupModel, and the reply starts
\* with the fallback notice, if and only if the primary failed and the text
\* came from a call of the backup provider; a text of the primary is never
\* tagged.
C2_TaggedIffBackup ==
    \A s \in Slots :
        LET h == run[s]
            dispatch == SelectSeq(h.calls, LAMBDA c : c.role # "summarization")
            fromBackup == /\ dispatch # <<>>
                          /\ Last(dispatch).role = "backup"
                          /\ Last(dispatch).kind = "ok"
                          /\ h.mainError # NoError
                          /\ \A i \in DOMAIN dispatch :
                                dispatch[i].role = "main" => dispatch[i].kind = "error"
        IN /\ h.result.usedBackupModel <=> (fromBackup /\ h.botReply # <<>>)
           /\ h.botReply # <<>> =>
                 /\ Last(dispatch).kind = "ok"
                 /\ h.result.response = Last(dispatch).text
                 /\ (Head(h.botReply) = "notice") <=> fromBackup

\* a reply of the backup, tagged and prefixed, has been delivered
C2_Witness ==
    \E s \in Slots :
        /\ run[s].result.usedBackupModel
        /\ Head(run[s].botReply) = "notice"
        /\ run[s].shown = <<"reply">>
        /\ Last(run[s].calls).role = "backup"

\* C3: generateResponseWithRetry with a budget of n attempts (3 for the
\* interactive calls, 1 for the summarization call): attempts are numbered
\* 1, 2, ... and never exceed n; a transient failure (503, 429) of an attempt
\* below n is followed by the next attempt; the value of a successful attempt
\* is the value returned; and when attempt n fails the error raised is the
\* error of attempt n.
C3_RetryWithinBudget ==
    \A s \in Slots :
        LET h == run[s]
            n == Len(h.calls)
        IN /\ \A i \in 1..n :
                 LET c == h.calls[i]
                     next == IF i < n
                             THEN [role |-> h.calls[i + 1].role,
                                   attempt |-> h.calls[i + 1].attempt]
                             ELSE Awaited(h)
                 IN /\ c.attempt \in 1..Budget(c.role)
                    /\ (TransientCall(c) /\ c.attempt < Budget(c.role)) =>
                          next = [role |-> c.role, attempt |-> c.attempt + 1]
                    /\ c.attempt > 1 =>
                          /\ i > 1
                          /\ h.calls[i - 1].role = c.role
                          /\ h.calls[i - 1].attempt = c.attempt - 1
                          /\ TransientCall(h.calls[i - 1])
                    /\ (c.kind = "ok" /\ c.role = "summarization" /\ i = n) =>
                          h.pass.result = c.text
                    /\ (c.kind = "ok" /\ c.role # "summarization") =>
                          h.result.response = c.text
                    /\ (TransientCall(c) /\ c.attempt = Budget(c.role)) =>
                          LET raised == IF c.role = "main" THEN h.mainError
                                        ELSE IF c.role = "backup" THEN h.backupError
                                        ELSE h.pass.error
                          IN /\ raised = IF c.role = "summarization" THEN CallError(c)
                                         ELSE generateGeminiResponseError(CallError(c))
                             /\ raised.attempt = Budget(c.role)
                             /\ next.role # c.role

\* the primary fails three times with transient errors; the backup fails
\* twice and answers at its third attempt, whose text is the result
C3_Witness ==
    \E s \in Slots :
        LET h == run[s]
        IN /\ Len(h.calls) = 6
           /\ \A i \in 1..5 : TransientCall(h.calls[i])
           /\ h.mainError.attempt = 3
           /\ h.calls[6].kind = "ok" /\ h.calls[6].attempt = 3
           /\ h.result.response = h.calls[6].text
           /\ h.pc = "deliver"

\* C4: a provider error that is not transient (any status but 503 and 429)
\* is raised at once: the provider is not called again in that dispatch, and
\* the error raised is that error.
C4_NonTransientRaisedAtOnce ==
    \A s \in Slots :
        LET h == run[s]
            n == Len(h.calls)
        IN \A i \in 1..n :
              LET c == h.calls[i]
              IN (c.kind = "error" /\ ~TransientCall(c)) =>
                    /\ \A j \in (i + 1)..n :
                          /\ h.calls[j].role # c.role
                          /\ c.role # "summarization"
                    /\ Awaited(h).role # c.role
                    /\ c.role = "main" =>
                          h.mainError = generateGeminiResponseError(CallError(c))
                    /\ c.role = "backup" =>
                          h.backupError = generateGeminiResponseError(CallError(c))
                    /\ c.role = "summarization" =>
                          h.pass.status = "failed" /\ h.pass.error = CallError(c)

\* the first call of the primary ends with a malformed-request error and the
\* next call goes to the backup
C4_Witness ==
    \E s \in Slots :
        LET h == run[s]
        IN /\ Len(h.calls) = 2
           /\ h.calls[1].role = "main" /\ h.calls[1].status = 400
           /\ h.calls[2].role = "backup" /\ h.calls[2].attempt = 1

(***************************************************************************)
(* SpecCompose: the composer on histories long enough for its slice of the *)
(* last RecentLimit turns of today to cut, with the memories found in the  *)
(* state file; every user text differs from the ones before it, a message  *)
(* may be handled the day after it was sent, and a dispatch may fail and   *)
(* leave history as the composer found it.                                 *)
(***************************************************************************)
HasComposeRoom(u) ==
    IF u \in DOMAIN globalContext
    THEN Len(globalContext[u].history) + 2 <= MaxCompose
    ELSE TRUE

ComposeTexts(u) ==
    IF u \in DOMAIN globalContext
    THEN {<<ToString(Len(globalContext[u].history))>>}
    ELSE {<<"0">>}

\* The platform hands over the updates in the order they were sent: a
\* message sent yesterday comes before every message sent today.
PendingDays(u) ==
    IF u \in DOMAIN globalContext
    THEN {d \in MessageDays :
            \/ d = today
            \/ \A i \in DOMAIN globalContext[u].history :
                  LET msg == globalContext[u].history[i]
                  IN msg.role = Hermione \/ datePart(msg.date) # today}
    ELSE MessageDays

\* The providers are up or down for the whole of an update.
ComposeOutcomes(s) ==
    IF run[s].calls = <<>>
    THEN {OkOutcome(<<"w">>), ErrOutcome(400, FALSE)}
    ELSE {ErrOutcome(400, FALSE)}

NextCompose ==
    \/ \E s \in Slots, u \in Users :
          /\ Sequential /\ HasComposeRoom(u)
          /\ \E text \in ComposeTexts(u), d \in PendingDays(u) :
                ReceiveText(s, u, text, d)
    \/ \E s \in Slots : \E o \in ComposeOutcomes(s) : ModelResponds(s, o)
    \/ \E s \in Slots : Deliver(s, TRUE)
    \/ \E s \in Slots : Persist(s)
    \/ Tick

\* The bot starts on a state file a former run has left: the session of the
\* user with no history and the memories of up to two days before day 1.
LoadedMemories ==
    LET m(day) == [key |-> day, text |-> <<"w">>, date |-> toLocaleString(day)]
    IN {<<>>, <<m(0)>>, <<m(0 - 1), m(0)>>}

InitCompose ==
    /\ \E memories \in LoadedMemories, u \in Users :
          globalContext = Put(EmptyMap, u, [NewSession EXCEPT !.memories = memories])
    /\ contextFile = globalContext
    /\ today = 1
    /\ run = [s \in Slots |-> IdleRun]
    /\ audit = [u \in Everyone |-> NoAudit]

SpecCompose == InitCompose /\ [][NextCompose]_vars

(***************************************************************************)
(* SpecSettings: the requests that set the primary and the backup model,   *)
(* with several updates of a user in flight at once: a handler may be      *)
(* overtaken at its awaits by the whole of another.                        *)
(***************************************************************************)
ModelNames == {GeminiExp, GeminiPro, Deepseek}

NextSettings ==
    \/ \E s \in Slots, u \in Users, m \in ModelNames : ReceiveSetMainModel(s, u, m)
    \/ \E s \in Slots, u \in Users, m \in ModelNames : ReceiveSetBackupModel(s, u, m)
    \/ \E s \in Slots : Persist(s)

SpecSettings == Init /\ [][NextSettings]_vars

(***************************************************************************)
(* SpecDeletion: the deletion of the last N turns: the request that sets   *)
(* the pending flag, the text that carries the count (a number within      *)
(* history, one beyond it, zero, a word), and memories made by a refresh.  *)
(***************************************************************************)
DeletionTexts == {<<"1">>, <<" ", "3">>, <<"9">>, <<"0">>, <<"w">>}

TextsFor(u) ==
    IF u \in DOMAIN globalContext
    THEN IF globalContext[u].awaitingMessageDeletionCount
         THEN DeletionTexts ELSE {<<"w">>}
    ELSE {<<"w">>}

\* a text that carries a count appends nothing
HasRoomOrPending(u) ==
    IF u \in DOMAIN globalContext
    THEN IF globalContext[u].awaitingMessageDeletionCount THEN TRUE
         ELSE HasRoom(u)
    ELSE TRUE

NextDeletion ==
    \/ \E s \in Slots, u \in Users :
          /\ Sequential /\ HasRoomOrPending(u)
          /\ \E text \in TextsFor(u) : ReceiveText(s, u, text, today)
    \/ \E s \in Slots : ModelResponds(s, OkOutcome(<<"w">>))
    \/ \E s \in Slots : SummaryResponds(s, OkOutcome(<<"w">>))
    \/ \E s \in Slots, ok \in BOOLEAN : Deliver(s, ok)
    \/ \E s \in Slots : Persist(s)
    \/ \E s \in Slots, u \in Users : Sequential /\ ReceiveRefresh(s, u)
    \/ \E s \in Slots, u \in Users : Sequential /\ ReceiveDeleteSpecificNumber(s, u)

SpecDeletion == Init /\ [][NextDeletion]_vars

(***************************************************************************)
(* SpecThreshold: text updates up to the threshold of the counter and      *)
(* past it, the dispatch always answering; delete_today_messages makes     *)
(* room in history without touching the counter.                           *)
(***************************************************************************)
NextThreshold ==
    \/ \E s \in Slots, u \in Users :
          Sequential /\ HasRoom(u) /\ ReceiveText(s, u, <<"w">>, today)
    \/ \E s \in Slots : ModelResponds(s, OkOutcome(<<"w">>))
    \/ \E s \in Slots, o \in SummaryOutcomes : SummaryResponds(s, o)
    \/ \E s \in Slots, ok \in BOOLEAN : Deliver(s, ok)
    \/ \E s \in Slots : Persist(s)
    \/ \E s \in Slots, u \in Users : Sequential /\ ReceiveDeleteToday(s, u)
    \/ Tick

SpecThreshold == Init /\ [][NextThreshold]_vars

(***************************************************************************)
(* Properties of the consolidation (checked under SpecConsol).             *)
(*                                                                         *)
(* "today" is the calendar day a pass read when it began (line 1136).  A   *)
(* text is blank when nothing is left of it after trim(): that is what the *)
(* code takes for an empty memory.                                         *)
(***************************************************************************)
Ended(pass) == pass.status \in {"completed", "failed", "empty"}

Blank(text) == Len(trim(text)) = 0

DaysOf(history) == {datePart(history[i].date) : i \in DOMAIN history}

EntriesOf(memories, day) == {i \in DOMAIN memories : memories[i].key = day}

\* what C5 says of the session of handler h once its pass has returned
OnlyTodayAndOneMemoryPerDay(h) ==
    LET session == globalContext[h.user]
    IN /\ \A i \in DOMAIN session.history :
             datePart(session.history[i].date) = h.pass.today
       /\ \A d \in DaysOf(h.pass.before) :
             d < h.pass.today =>
                Cardinality(EntriesOf(session.memories, d)) = 1

C6_DroppedTurnsAreInMemory ==
    \A s \in Slots :
        \A i \in DOMAIN run[s].pass.dropped : run[s].pass.dropped[i].inMemory

\* C7: when the summarization call of one day group fails, the other day
\* groups that needed a summary are still attempted in that pass.
C7_OtherDaysAttempted ==
    \A s \in Slots :
        run[s].pass.status = "failed" =>
            run[s].pass.needed \subseteq Range(run[s].pass.attempted)

\* C8 (as claimed): a run that follows another run, with the session
\* untouched in between, leaves memories as the first run left them.
C8_SecondRunChangesNothing ==
    \A s \in Slots :
        (Ended(run[s].pass) /\ run[s].pass.successive) =>
            globalContext[run[s].user].memories = run[s].pass.memoriesBefore

\* C8 (amended): such a second run removes no entry, keeps the order of the
\* entries, and leaves every entry of a day other than today whose text is
\* not blank as the first run left it; it may generate today's entry anew
\* and the entries the first run left missing or blank.
C8_SecondRunKeepsOtherDays ==
    \A s \in Slots :
        LET pass == run[s].pass
            before == pass.memoriesBefore
            after == globalContext[run[s].user].memories
        IN (pass.status # "none" /\ pass.successive) =>
              /\ Len(after) >= Len(before)
              /\ \A i \in DOMAIN before :
                    /\ after[i].key = before[i].key
                    /\ (before[i].key # pass.today /\ ~Blank(before[i].text)) =>
                          after[i] = before[i]

\* a second run has generated today's memory anew and has left the memory of
\* an earlier day as it was
C8_Witness ==
    \E s \in Slots :
        LET pass == run[s].pass
            after == globalContext[run[s].user].memories
        IN /\ pass.status = "completed" /\ pass.successive
           /\ after # pass.memoriesBefore
           /\ \E i \in DOMAIN pass.memoriesBefore :
                 /\ pass.memoriesBefore[i].key # pass.today
                 /\ ~Blank(pass.memoriesBefore[i].text)

\* C9: a memory of a day other than today whose text is not blank is not
\* changed by consolidation: no summarization call is made for its day, and
\* every step leaves the entry as it is, except the clear-all step.
C9_MemoryOfPastDayKept ==
    /\ [](\A s \in Slots :
             run[s].pc = "summarize" =>
                LET day == run[s].pass.groupedMessages[run[s].pass.idx].date
                    memories == globalContext[run[s].user].memories
                IN \/ day = run[s].pass.today
                   \/ day \notin memKeys(memories)
                   \/ Blank(memGet(memories, day).text))
    /\ [][\A u \in DOMAIN globalContext :
             LET memories == globalContext[u].memories
             IN \A i \in DOMAIN memories :
                   (/\ ~Blank(memories[i].text)
                    /\ ~\E s \in Slots :
                          /\ run[s].user = u
                          /\ run[s].pc = "summarize"
                          /\ run[s].pass.today = memories[i].key) =>
                       \/ /\ i \in DOMAIN globalContext'[u].memories
                          /\ globalContext'[u].memories[i] = memories[i]
                       \/ \E s \in Slots :
                             /\ run[s].pc = "idle"
                             /\ run'[s].kind = "clear_all"
                             /\ run'[s].user = u]_vars

\* a pass has completed that found the non-blank memory of an earlier day,
\* made no call for that day and dropped its turns
C9_Witness ==
    \E s \in Slots :
        LET pass == run[s].pass
        IN /\ pass.status = "completed"
           /\ \E i \in DOMAIN pass.groupedMessages :
                 LET day == pass.groupedMessages[i].date
                 IN /\ day # pass.today
                    /\ day \notin Range(pass.attempted)
                    /\ day \in memKeys(pass.memoriesBefore)
                    /\ ~Blank(memGet(pass.memoriesBefore, day).text)
                    /\ memGet(globalContext[run[s].user].memories, day)
                          = memGet(pass.memoriesBefore, day)

(***************************************************************************)
(* Properties of the threshold (checked under Spec).                       *)
(*                                                                         *)
(* audit[u].appended is the number of turns appended to the history of u   *)
(* since a consolidation pass of u last returned, whoever called it.       *)
(***************************************************************************)
\* C10: messageCountSinceSummary equals, in every state, the number of turns
\* appended since the last consolidation (by the threshold or by
\* refresh_memories), and the text handler starts a consolidation exactly
\* when that number reaches the threshold.
C10_CounterCountsTurnsSinceConsolidation ==
    /\ \A u \in DOMAIN globalContext :
          globalContext[u].messageCountSinceSummary = audit[u].appended
    /\ \A s \in Slots :
          (run[s].kind = "text" /\ run[s].counted # 0) =>
             (run[s].pass.status # "none"
                 <=> run[s].appendedThen = SummaryThreshold)

(***************************************************************************)
(* Properties of the composer (checked under SpecCompose).                 *)
(*                                                                         *)
(* run[s].call is the call of buildContents the text handler in slot s     *)
(* made; run[s].prevCall is the call before it, kept while history has not *)
(* grown since.                                                            *)
(***************************************************************************)
\* the positions in history of the turns dated day
DatedOn(history, day) ==
    {i \in DOMAIN history : datePart(history[i].date) = day}

\* the n-th of a set of positions, in increasing order
NthOf(positions, n) ==
    CHOOSE i \in positions : Cardinality({j \in positions : j <= i}) = n

Min(a, b) == IF a <= b THEN a ELSE b

SameArguments(c1, c2) ==
    /\ c1.history = c2.history
    /\ c1.memories = c2.memories
    /\ c1.userName = c2.userName
    /\ c1.userMessage = c2.userMessage
    /\ c1.messageDate = c2.messageDate

\* C11: buildContents returns one fragment per memory entry in insertion
\* order, then the last min(20, number of today's turns) turns of history
\* dated today in their order, then the new turn, then the cue:
\* |memories| + min(20, |today's turns|) + 2 fragments.
C11_FragmentsInOrder ==
    \A s \in Slots :
        run[s].kind = "text" =>
            LET c == run[s].call
                todays == DatedOn(c.history, c.now)
                k == Min(RecentLimit, Cardinality(todays))
                m == Len(c.memories)
                from == Cardinality(todays) - k
            IN /\ Len(c.contents) = m + k + 2
               /\ \A i \in 1..m :
                     c.contents[i] =
                        [kind |-> "memory", label |-> "memories",
                         date |-> <<c.memories[i].key, "day">>,
                         text |-> c.memories[i].text]
               /\ \A n \in 1..k :
                     LET turn == c.history[NthOf(todays, from + n)]
                     IN c.contents[m + n] =
                           [kind |-> "turn", label |-> turn.role,
                            date |-> turn.date, text |-> turn.content]
               /\ c.contents[m + k + 1] =
                     [kind |-> "turn", label |-> c.userName,
                      date |-> c.messageDate, text |-> c.userMessage]
               /\ c.contents[m + k + 2].kind = "cue"

\* a call with two memories, more than 20 turns of today and a turn of
\* another day in history
C11_Witness ==
    \E s \in Slots :
        /\ run[s].kind = "text"
        /\ Len(run[s].call.memories) = 2
        /\ Cardinality(DatedOn(run[s].call.history, run[s].call.now)) > RecentLimit
        /\ Cardinality(DatedOn(run[s].call.history, run[s].call.now))
              < Len(run[s].call.history)

\* the call left history and memories of the session as they were
CallModifiedNothing(h) ==
    h.pc = "generate" =>
        /\ globalContext[h.user].history = h.call.history
        /\ globalContext[h.user].memories = h.call.memories

ProvidersOf(context, u) ==
    IF u \in DOMAIN context
    THEN [mainModel |-> context[u].mainModel,
          backupModel |-> context[u].backupModel]
    ELSE [mainModel |-> GeminiExp, backupModel |-> GeminiPro]

SetModelKinds == {"set_main_model", "set_backup_model"}

\* this step is the handler in slot s taking a request that asks for the
\* value the other provider holds
TakesClashingRequest(s) ==
    /\ run[s].pc = "idle"
    /\ run'[s].kind \in SetModelKinds
    /\ run'[s].requested =
          IF run'[s].kind = "set_main_model"
          THEN ProvidersOf(globalContext, run'[s].user).backupModel
          ELSE ProvidersOf(globalContext, run'[s].user).mainModel

\* the handler rejects the request and changes neither provider nor the file
RejectsAndKeeps(s) ==
    /\ run'[s].shown = <<"same_model_rejected">>
    /\ ProvidersOf(globalContext', run'[s].user)
          = ProvidersOf(globalContext, run'[s].user)
    /\ contextFile' = contextFile

\* this step ends the update of a rejected request
EndsRejected(s) ==
    /\ run[s].kind \in SetModelKinds
    /\ run[s].shown = <<"same_model_rejected">>
    /\ run'[s].pc = "idle"

C14_ProvidersDiffer ==
    /\ \A u \in DOMAIN globalContext :
          globalContext[u].mainModel # globalContext[u].backupModel
    /\ \A u \in DOMAIN contextFile :
          contextFile[u].mainModel # contextFile[u].backupModel

\* the providers have been swapped while two requests were in flight
C14_Witness ==
    /\ \A s \in Slots : run[s].kind \in SetModelKinds
    /\ \E s, t \in Slots : run[s].kind # run[t].kind
    /\ \E u \in DOMAIN globalContext :
          /\ globalContext[u].mainModel = GeminiPro
          /\ globalContext[u].backupModel = GeminiExp

(***************************************************************************)
(* Properties of the deletion of the last N turns (checked under           *)
(* SpecDeletion).                                                          *)
(***************************************************************************)
\* the positive integer each of these texts carries
CarriedCount ==
    [text \in {<<"1">>, <<" ", "3">>, <<"9">>} |->
        CASE text = <<"1">> -> 1 [] text = <<" ", "3">> -> 3 [] text = <<"9">> -> 9]

\* C15: with the deletion pending, a text that carries a positive integer N
\* removes the last N entries of a non-empty history, all of them when N
\* exceeds its length; the entries left keep their order and content, and
\* memories is untouched.
C15_LastNRemoved ==
    \A s \in Slots :
        LET h == run[s]
        IN (/\ h.kind = "deletion"
            /\ h.userMessage \in DOMAIN CarriedCount
            /\ h.entry.history # <<>>) =>
              LET session == globalContext[h.user]
                  n == CarriedCount[h.userMessage]
                  left == IF n >= Len(h.entry.history) THEN 0
                          ELSE Len(h.entry.history) - n
              IN /\ Len(session.history) = left
                 /\ \A i \in 1..left : session.history[i] = h.entry.history[i]
                 /\ session.memories = h.entry.memories
                 /\ h.sending = "deleted_count"

\* the last of four turns has been removed from a session that has a memory
C15_Witness ==
    \E s \in Slots :
        /\ run[s].kind = "deletion"
        /\ run[s].userMessage = <<"1">>
        /\ Len(run[s].entry.history) = 4
        /\ Len(globalContext[run[s].user].history) = 3
        /\ run[s].entry.memories # <<>>

(***************************************************************************)
(* Properties of the text handler.                                         *)
(*                                                                         *)
(* run[s].entry is the session as the handler in slot s found it;          *)
(* run[s].counted is the counter after the handler has added 2 to it (0    *)
(* while it has not).                                                      *)
(***************************************************************************)
\* a turn as the program stores it
Stored(turn) == [role |-> turn.role, content |-> turn.content, date |-> turn.date]

\* the handler has chosen its reply and appended
HasAppended(h) == h.kind = "text" /\ h.counted # 0

\* history is what the handler found, then the user turn, then the
\* assistant turn with the reply
TwoTurnsAtTheEnd(h, history) ==
    LET n == Len(h.entry.history)
    IN /\ Len(history) = n + 2
       /\ \A i \in 1..n : Stored(history[i]) = Stored(h.entry.history[i])
       /\ Stored(history[n + 1]) =
             [role |-> h.user, content |-> h.userMessage, date |-> h.messageDate]
       /\ history[n + 2].role = Hermione
       /\ history[n + 2].content = h.botReply

\* C16: a text update whose dispatch returned a reply appends two turns at
\* the end of history, the user turn then the assistant turn, and adds 2 to
\* the counter before any reset; from an empty session the composer emits 2
\* fragments and history has length 2 afterwards.
C16_TwoTurnsAppended ==
    \A s \in Slots :
        LET h == run[s]
            session == globalContext[h.user]
        IN HasAppended(h) =>
              /\ h.counted = h.entry.messageCountSinceSummary + 2
              /\ h.pass.status # "completed" =>
                    TwoTurnsAtTheEnd(h, session.history)
              /\ h.pass.status \in {"none", "running"} =>
                    session.messageCountSinceSummary = h.counted
              /\ (h.entry.history = <<>> /\ h.entry.memories = <<>>) =>
                    /\ Len(h.call.contents) = 2
                    /\ h.pass.status # "completed" => Len(session.history) = 2

\* the two turns have been appended to a history that was not empty, the
\* counter has reached the threshold and the pass it starts is running
C16_Witness ==
    \E s \in Slots :
        /\ HasAppended(run[s])
        /\ run[s].counted = SummaryThreshold
        /\ run[s].pass.status = "running"
        /\ run[s].entry.history # <<>>

\* C17: an update that has chosen its reply and appended its two turns ends
\* with a write of the store whose snapshot holds the history with those
\* turns, on every exit path of the handler.
C17_AppendedTurnsPersisted ==
    [][\A s \in Slots :
          (HasAppended(run[s]) /\ run'[s].pc = "idle") =>
              /\ run[s].user \in DOMAIN contextFile'
              /\ contextFile'[run[s].user].history
                    = globalContext'[run[s].user].history]_vars


(***************************************************************************)
(* Properties of a failed dispatch (checked under SpecDispatch).           *)
(*                                                                         *)
(* The dispatch of a text update has failed for good when the backup has   *)
(* thrown too (line 1268): the handler is in its catch block (1388-1399).  *)
(***************************************************************************)
DispatchFailed(h) == h.kind = "text" /\ h.backupError # NoError

ErrorMessages ==
    {"error_prohibited", "error_unavailable", "error_too_many", "error_generic"}

AsAtEntry(h, context) ==
    /\ h.user \in DOMAIN context
    /\ context[h.user].history = h.entry.history
    /\ context[h.user].memories = h.entry.memories
    /\ context[h.user].messageCountSinceSummary
          = h.entry.messageCountSinceSummary

\* C18: when the dispatch of a text update has failed for good (the primary
\* and the backup have both thrown), the handler sends one of the error
\* messages, which is what the user has been shown when the send returns,
\* and the history, the memories and the counter of the session are, to the
\* end of the update and in the snapshot it writes, what they were when the
\* update came in.
C18_FailedDispatchKeepsSession ==
    [][\A s \in Slots :
          DispatchFailed(run[s]) =>
             /\ AsAtEntry(run[s], globalContext)
             /\ AsAtEntry(run[s], globalContext')
             /\ run[s].pc \in {"deliver", "persist"}
             /\ run[s].pc = "deliver" =>
                   /\ run[s].sending = "error"
                   /\ run[s].shown = <<>>
                   /\ run'[s].pc = "persist" =>
                         /\ run'[s].shown = <<errorMessage(run[s].caught)>>
                         /\ errorMessage(run[s].caught) \in ErrorMessages
             /\ run[s].pc = "persist" =>
                   /\ Len(run[s].shown) = 1
                   /\ Last(run[s].shown) \in ErrorMessages
                   /\ run'[s].pc = "idle" => AsAtEntry(run[s], contextFile')]_vars

\* a session with history and a counter above zero: the primary and the
\* backup have failed and the error message has been shown
C18_Witness ==
    \E s \in Slots :
        /\ DispatchFailed(run[s])
        /\ run[s].pc = "persist"
        /\ run[s].shown = <<"error_generic">>
        /\ Len(run[s].entry.history) >= 2
        /\ run[s].entry.messageCountSinceSummary >= 2

\* C19: when the primary provider has refused the request with a block of
\* reason PROHIBITED_CONTENT and the update has failed, the message shown to
\* the user is the content-policy refusal, not the generic apology.
C19_BlockShowsRefusal ==
    \A s \in Slots :
        LET h == run[s]
        IN (/\ DispatchFailed(h)
            /\ h.pc = "persist"
            /\ Last(CallsOf(h, "main")).block) =>
                 Last(h.shown) = "error_prohibited"

\* C20: after a failed dispatch the message shown is a function of the last
\* error of the primary alone: status 503 gives the service-unavailable
\* message, status 429 the too-many-requests message, an error that is none
\* of these and no content block gives the generic apology, whatever the
\* errors of the backup were.
C20_PrimaryErrorDecidesMessage ==
    \A s \in Slots :
        LET h == run[s]
            primary == Last(CallsOf(h, "main"))
        IN (DispatchFailed(h) /\ h.pc = "persist") =>
              /\ primary.kind = "error"
              /\ primary.status = 503 => Last(h.shown) = "error_unavailable"
              /\ primary.status = 429 => Last(h.shown) = "error_too_many"
              /\ (primary.status \notin {503, 429} /\ ~primary.block) =>
                    Last(h.shown) = "error_generic"

\* the primary ended rate-limited and the backup ended unavailable: the
\* message shown is the one for too many requests
C20_Witness ==
    \E s \in Slots :
        LET h == run[s]
        IN /\ DispatchFailed(h)
           /\ h.pc = "persist"
           /\ Last(CallsOf(h, "main")).status = 429
           /\ Last(CallsOf(h, "backup")).status = 503
           /\ h.shown = <<"error_too_many">>

(***************************************************************************)
(* Properties of rejected inputs and of the pending deletion (checked      *)
(* under SpecDeletion).                                                    *)
(***************************************************************************)
InvalidCountTexts == {text \in DeletionTexts : isInvalidCount(parseInt(trim(text)))}

\* C21: a text that is taken for a deletion count and is not a positive
\* number is rejected and no step of its handler changes a field of the
\* session.
C21_InvalidCountChangesNothing ==
    [][\A s \in Slots :
          (/\ run[s].kind = "deletion"
           /\ run[s].userMessage \in InvalidCountTexts) =>
                globalContext'[run[s].user] = globalContext[run[s].user]]_vars

(***************************************************************************)
(* The state file: writes that fail, a process that stops, a restart.      *)
(*                                                                         *)
(* saveContext is fs.writeFile of the whole document (line 188), which     *)
(* truncates the file and then writes it.  A write that fails, or a        *)
(* process that stops while a write is under way, leaves the file as it    *)
(* was or leaves a document that is cut short (empty included), which      *)
(* JSON.parse rejects.                                                     *)
(***************************************************************************)
PartialDocument == [x \in {"partial"} |-> "partial"]

\* what a write that did not finish may leave
LeftByWrite == {contextFile, PartialDocument}

\* loadContext, lines 157-174 (and initializeContext, 1973-1986): a falsy
\* setting is replaced by its default
withDefaults(userCtx) ==
    [userCtx EXCEPT
        !.maxOutputTokens = IF falsy(@) THEN Number(DefaultMaxOutputTokens) ELSE @,
        !.temperature = IF falsy(@) THEN Number(DefaultTemperatureTenths) ELSE @]

\* loadContext, lines 150-184: the document, or the error readFile or
\* JSON.parse threw; a file that is not there (ENOENT) is the empty map
loadContext(file, readable) ==
    IF readable
    THEN IF file = PartialDocument
         THEN [threw |-> TRUE, context |-> EmptyMap]
         ELSE [threw |-> FALSE,
               context |-> [userId \in DOMAIN file |-> withDefaults(file[userId])]]
    ELSE [threw |-> TRUE, context |-> EmptyMap]

\* initializeContext, lines 1964-1984: the map the bot starts with
initializeContext(file, readable) ==
    LET loaded == loadContext(file, readable)
    IN IF loaded.threw
       THEN EmptyMap
       ELSE [userId \in DOMAIN loaded.context |->
                withDefaults(loaded.context[userId])]

DownRun == [IdleRun EXCEPT !.pc = "down"]

Down == \A s \in Slots : run[s].pc = "down"

WriteUnderWay == \E s \in Slots : run[s].pc = "persist"

\* The process stops: the handlers in flight and the map in memory are gone.
Crash(left) ==
    /\ ~Down
    /\ IF WriteUnderWay THEN left \in LeftByWrite ELSE left = contextFile
    /\ contextFile' = left
    /\ globalContext' = EmptyMap
    /\ run' = [s \in Slots |-> DownRun]
    /\ audit' = [u \in Everyone |-> NoAudit]
    /\ UNCHANGED today

\* startBot, lines 1994-2000: initializeContext, its write of line 1986, and
\* bot.start()
Restart(readable) ==
    /\ Down
    /\ globalContext' = initializeContext(contextFile, readable)
    /\ contextFile' = saveContext(globalContext')
    /\ run' = [s \in Slots |-> IdleRun]
    /\ UNCHANGED <<today, audit>>

\* The deletion branch when the write of line 1305 throws: history has been
\* cut (1304); the notice of 1306 and line 1310 are not reached, and the
\* exception leaves the handler and the middleware.
ReceiveTextWriteFails(s, u, text, left) ==
    /\ FreeSlot(s)
    /\ u \in DOMAIN globalContext
    /\ left \in LeftByWrite
    /\ LET session == globalContext[u]
           r == deletionBranch(session, text)
       IN /\ session.awaitingMessageDeletionCount
          /\ r.saved
          /\ globalContext' = [globalContext EXCEPT ![u] = r.session]
          /\ contextFile' = left
          /\ run' = [run EXCEPT ![s] =
                 [IdleRun EXCEPT !.pc = "thrown", !.kind = "deletion",
                     !.user = u, !.entry = entryOf(session),
                     !.userMessage = text]]
          /\ audit' = [audit EXCEPT ![u].untouched = FALSE]
    /\ UNCHANGED today

\* bot.use, line 226, when the write throws
PersistFails(s, left) ==
    /\ run[s].pc = "persist"
    /\ left \in LeftByWrite
    /\ contextFile' = left
    /\ run' = [run EXCEPT ![s].pc = "thrown"]
    /\ UNCHANGED <<globalContext, today, audit>>

\* bot.catch, lines 1948-1959: the error is logged
BotCatch(s) ==
    /\ run[s].pc = "thrown"
    /\ run' = [run EXCEPT ![s] = IdleRun]
    /\ UNCHANGED <<globalContext, contextFile, today, audit>>

(***************************************************************************)
(* SpecStore: chat turns, the deletion of the last N turns and clear-all   *)
(* on a state file whose writes may fail, with a process that may stop at  *)
(* any point and start again.                                              *)
(***************************************************************************)
StoreTexts(u) ==
    IF u \in DOMAIN globalContext
    THEN IF globalContext[u].awaitingMessageDeletionCount
         THEN {<<"1">>, <<"w">>} ELSE {<<"w">>}
    ELSE {<<"w">>}

\* a chat message is sent while history and the counter have room
StoreRoom(u) ==
    IF u \in DOMAIN globalContext
    THEN IF globalContext[u].awaitingMessageDeletionCount THEN TRUE
         ELSE /\ HasRoom(u)
              /\ globalContext[u].messageCountSinceSummary + 2 <= MaxHist
    ELSE TRUE

NextStore ==
    \/ \E s \in Slots, u \in Users :
          /\ Sequential /\ StoreRoom(u)
          /\ \E text \in StoreTexts(u) : ReceiveText(s, u, text, today)
    \/ \E s \in Slots, u \in Users :
          /\ Sequential
          /\ \E left \in LeftByWrite : ReceiveTextWriteFails(s, u, <<"1">>, left)
    \/ \E s \in Slots : ModelResponds(s, OkOutcome(<<"w">>))
    \/ \E s \in Slots : Deliver(s, TRUE)
    \/ \E s \in Slots : Persist(s)
    \/ \E s \in Slots, left \in LeftByWrite : PersistFails(s, left)
    \/ \E s \in Slots : BotCatch(s)
    \/ \E s \in Slots, u \in Users : Sequential /\ ReceiveDeleteSpecificNumber(s, u)
    \/ \E s \in Slots, u \in Users : Sequential /\ ReceiveClearAll(s, u)
    \/ \E left \in LeftByWrite : Crash(left)
    \/ \E readable \in BOOLEAN : Restart(readable)

SpecStore == Init /\ [][NextStore]_vars

(***************************************************************************)
(* Properties of the state file (checked under SpecStore).                 *)
(***************************************************************************)
\* C22: when the write of the deletion of the last N turns fails (the
\* handler is left before anything has been shown), the turns are removed in
\* memory and the pending flag is cleared all the same.
C22_WriteFailureCompletesInMemory ==
    \A s \in Slots :
        (/\ run[s].pc = "thrown"
         /\ run[s].kind = "deletion"
         /\ run[s].shown = <<>>) =>
            /\ Len(globalContext[run[s].user].history)
                  < Len(run[s].entry.history)
            /\ ~globalContext[run[s].user].awaitingMessageDeletionCount

\* C24: a session record that is in the state file is in the map in memory
\* and in the state file after every step that leaves the bot running, a
\* restart included (a write that failed may have left a document cut short).
C24_RecordNeverDeleted ==
    [][\A u \in Users :
          (u \in DOMAIN contextFile /\ ~Down') =>
              /\ u \in DOMAIN globalContext'
              /\ u \in DOMAIN contextFile' \/ contextFile' = PartialDocument]_vars

\* C29: when the process stops, the state file holds the snapshot it held
\* before or the snapshot of the write that was under way, whole.
C29_FileWholeAfterCrash ==
    [][(~Down /\ Down') =>
          contextFile' \in {contextFile, saveContext(globalContext)}]_vars

(***************************************************************************)
(* Properties of the adapters of a dispatch (checked under SpecDispatch).  *)
(***************************************************************************)
DispatchLeft(h) == h.kind = "text" /\ h.pc \in {"deliver", "summarize", "persist"}

\* C23: when generateResponseWithBackup has been left, by a return or by a
\* throw, cleanupModel has been called for the primary adapter and for the
\* backup adapter.
C23_BothAdaptersCleaned ==
    \A s \in Slots :
        DispatchLeft(run[s]) => run[s].cleaned = {"main", "backup"}

(***************************************************************************)
(* SpecRace: two text updates of one user and a refresh_memories request,  *)
(* each handed to its handler while the others are suspended at an await.  *)
(* The texts are numbered in the order of their arrival: "2" arrives while *)
(* the handler of "1" waits for its provider.                              *)
(***************************************************************************)
InFlight(u, text) ==
    \E s \in Slots : run[s].user = u /\ run[s].pc = "generate"
                     /\ run[s].userMessage = text

Arrived(u, text) ==
    \/ InFlight(u, text)
    \/ /\ u \in DOMAIN globalContext
       /\ \E i \in DOMAIN globalContext[u].history :
             globalContext[u].history[i].content = text

\* no text has been sent yet
Fresh(u) ==
    /\ \A s \in Slots : run[s].user = u => run[s].kind # "text"
    /\ IF u \in DOMAIN globalContext
       THEN globalContext[u].history = <<>> /\ globalContext[u].memories = <<>>
       ELSE TRUE

RaceTexts(u) ==
    {text \in {<<"1">>} : Fresh(u)}
    \cup {text \in {<<"2">>} : InFlight(u, <<"1">>) /\ ~Arrived(u, <<"2">>)}

RefreshInFlight(u) ==
    \E s \in Slots : run[s].user = u /\ run[s].kind = "refresh"

NextRace ==
    \/ \E s \in Slots, u \in Users :
          \E text \in RaceTexts(u) : ReceiveText(s, u, text, today)
    \/ \E s \in Slots, u \in Users : ~RefreshInFlight(u) /\ ReceiveRefresh(s, u)
    \/ \E s \in Slots : ModelResponds(s, OkOutcome(<<"w">>))
    \/ \E s \in Slots, o \in SummaryOutcomes : SummaryResponds(s, o)
    \/ \E s \in Slots : Deliver(s, TRUE)
    \/ \E s \in Slots : Persist(s)

SpecRace == Init /\ [][NextRace]_vars

Bare(turn) == [turn EXCEPT !.inMemory = FALSE]

Idle(u) == \A s \in Slots : run[s].user # u

\* a user sends a chat message while the session has had no exchange since
\* it was last emptied
FrameRoom(u) ==
    IF u \in DOMAIN globalContext
    THEN IF globalContext[u].awaitingMessageDeletionCount THEN TRUE
         ELSE /\ Len(globalContext[u].history) + 4 <= MaxHist
              /\ globalContext[u].messageCountSinceSummary + 4 <= MaxHist
    ELSE TRUE

FrameTexts(u) ==
    IF u \in DOMAIN globalContext
    THEN IF globalContext[u].awaitingMessageDeletionCount
         THEN {<<"1">>} ELSE {<<"w">>}
    ELSE {<<"w">>}

NextFrame ==
    \/ \E s \in Slots, u \in Everyone :
          /\ Idle(u) /\ FrameRoom(u)
          /\ \E text \in FrameTexts(u) : ReceiveText(s, u, text, today)
    \/ \E s \in Slots : ModelResponds(s, OkOutcome(<<"w">>))
    \/ \E s \in Slots : SummaryResponds(s, OkOutcome(<<"w">>))
    \/ \E s \in Slots : Deliver(s, TRUE)
    \/ \E s \in Slots : Persist(s)
    \/ \E s \in Slots, u \in Everyone :
          Idle(u) /\ ReceiveSetMainModel(s, u, Deepseek)
    \/ \E s \in Slots, u \in Everyone : Idle(u) /\ ReceiveDeleteSpecificNumber(s, u)
    \/ \E s \in Slots, u \in Everyone : Idle(u) /\ ReceiveClearAll(s, u)
    \/ \E s \in Slots, u \in Everyone : Idle(u) /\ ReceiveRefresh(s, u)

SpecFrame == Init /\ [][NextFrame]_vars

(***************************************************************************)
(* Properties of the sessions of different users (checked under SpecFrame).*)
(***************************************************************************)
SessionOf(context, u) == IF u \in DOMAIN context THEN <<context[u]>> ELSE <<>>

\* the user whose update the handler of slot s handles in this step
ActorOf(before, after) == IF before.pc = "idle" THEN after.user ELSE before.user

\* C26: a step changes the session of a user in memory (or creates it) only
\* if it is a step of a handler of an update of that user: the handlers of
\* the updates of another user leave every field of it alone.
C26_OtherSessionsUntouched ==
    [][\A b \in Everyone :
          SessionOf(globalContext', b) # SessionOf(globalContext, b) =>
              \A s \in Slots :
                  run'[s] # run[s] => ActorOf(run[s], run'[s]) = b]_vars

\* the first user has changed the primary model and holds an exchange that a
\* pass is summarizing, while a text of the second user, whose settings are
\* the defaults, waits for its provider
C26_Witness ==
    /\ {"u1", "u2"} \subseteq DOMAIN globalContext
    /\ globalContext["u1"].mainModel = Deepseek
    /\ Len(globalContext["u1"].history) = 2
    /\ globalContext["u2"].mainModel = GeminiExp
    /\ globalContext["u2"].history = <<>>
    /\ \E s, t \in Slots :
          /\ run[s].user = "u1" /\ run[s].kind = "refresh" /\ run[s].pc = "summarize"
          /\ run[t].user = "u2" /\ run[t].kind = "text" /\ run[t].pc = "generate"

(***************************************************************************)
(* Properties of the calls of a consolidation pass (checked under          *)
(* SpecConsol).                                                            *)
(***************************************************************************)
Distinct(seq) == \A i, j \in DOMAIN seq : seq[i] = seq[j] => i = j

\* C27: the calls a pass makes go to the summarization model, each is the
\* first and only attempt for its day group, the groups called for are
\* distinct groups that needed a summary when the pass began (all of them
\* once the pass has completed), a call that fails is the last call of the
\* pass, and no call of the primary or the backup follows a summarization
\* call.
C27_OneSummarizationCallPerGroup ==
    \A s \in Slots :
        LET h == run[s]
            pass == h.pass
            calls == CallsOf(h, "summarization")
            awaited == IF h.pc = "summarize" THEN 1 ELSE 0
        IN /\ \A i \in DOMAIN calls :
                 /\ calls[i].attempt = 1
                 /\ calls[i].model = SummarizationModelName
                 /\ calls[i].kind = "error" =>
                       i = Len(calls) /\ pass.status = "failed"
           /\ Len(calls) + awaited = Len(pass.attempted)
           /\ Distinct(pass.attempted)
           /\ Range(pass.attempted) \subseteq pass.needed
           /\ pass.status = "completed" => Range(pass.attempted) = pass.needed
           /\ \A i, j \in DOMAIN h.calls :
                 (i < j /\ h.calls[i].role = "summarization") =>
                     h.calls[j].role = "summarization"

\* a pass over two day groups that both needed a summary: the call for the
\* first answered, the call for the second ended with a 503 and the pass is
\* over after two calls
C27_Witness ==
    \E s \in Slots :
        LET h == run[s]
        IN /\ h.pass.status = "failed"
           /\ Cardinality(h.pass.needed) = 2
           /\ Len(CallsOf(h, "summarization")) = 2
           /\ CallsOf(h, "summarization")[1].kind = "ok"
           /\ CallsOf(h, "summarization")[2].status = 503

(***************************************************************************)
(* Properties of the pending deletion (checked under SpecDeletion).        *)
(***************************************************************************)
\* C28: a text that arrives while the pending flag is set is consumed by the
\* deletion flow: no generation is dispatched for it, no turn is appended for
\* it, and the flag is false when its handler has ended.
C28_PendingFlagConsumesOneText ==
    [][\A s \in Slots :
          run[s].kind = "deletion" =>
             /\ run[s].calls = <<>>
             /\ Len(globalContext[run[s].user].history)
                   <= Len(run[s].entry.history)
             /\ run'[s].pc = "idle" =>
                   ~globalContext'[run[s].user].awaitingMessageDeletionCount]_vars

(***************************************************************************)
(* Properties of the counter and of the threshold consolidation (checked   *)
(* under SpecThreshold).                                                   *)
(***************************************************************************)
CounterOf(context, u) == context[u].messageCountSinceSummary

\* C31: with the updates handled one at a time, the counter is in 0..29
\* whenever no handler is in flight; the append of a pair adds 2 to it, and
\* the update whose append brings it to 30 or more ends with the counter at
\* 0 after its pass has ended, completed or failed.
C31_CounterBelowThreshold ==
    [][/\ \A u \in Users :
             (Sequential /\ u \in DOMAIN globalContext) =>
                 CounterOf(globalContext, u) \in 0..(SummaryThreshold - 1)
       /\ \A s \in Slots :
          LET h == run[s]
              u == h.user
          IN /\ (h.kind = "text" /\ h.pc = "generate" /\ run'[s].botReply # <<>>) =>
                    /\ run'[s].counted = CounterOf(globalContext, u) + 2
                    /\ run'[s].counted < SummaryThreshold =>
                          CounterOf(globalContext', u) = run'[s].counted
             /\ (h.kind = "text" /\ h.pc # "idle" /\ run'[s].pc = "idle") =>
                    /\ CounterOf(globalContext', u) \in 0..(SummaryThreshold - 1)
                    /\ h.counted >= SummaryThreshold =>
                          /\ CounterOf(globalContext', u) = 0
                          /\ h.pass.status \in {"completed", "failed"}]_vars

\* the append has brought the counter to 30, the pass has failed, and the
\* counter is 0 when the reply has been delivered
C31_Witness ==
    \E s \in Slots :
        /\ run[s].counted = SummaryThreshold
        /\ run[s].pass.status = "failed"
        /\ run[s].pc = "persist"
        /\ CounterOf(globalContext, run[s].user) = 0


(***************************************************************************)
(* Properties of the interactive dispatch as a whole (checked under        *)
(* SpecDispatch).                                                          *)
(***************************************************************************)
TerminalFailure(c) ==
    /\ c.kind = "error"
    /\ IF TransientCall(c) THEN c.attempt = InteractiveRetries ELSE TRUE

\* C32: an interactive dispatch makes at most 3 calls of the primary and at
\* most 3 of the backup and has ended, with a result or with an error, once
\* its calls are used up; every call of the backup comes after a call of the
\* primary that failed for good (a failure that is not transient, or the
\* third transient one), and no call of the primary comes after it.
C32_DispatchEndsWithinSixCalls ==
    \A s \in Slots :
        LET h == run[s]
            main == CallsOf(h, "main")
            backup == CallsOf(h, "backup")
            dispatch == SelectSeq(h.calls, LAMBDA c : c.role # "summarization")
        IN /\ Len(main) <= InteractiveRetries
           /\ Len(backup) <= InteractiveRetries
           /\ \A i \in DOMAIN dispatch :
                 dispatch[i].role = "backup" =>
                    /\ main # <<>>
                    /\ TerminalFailure(Last(main))
                    /\ i > Len(main)
           /\ (h.pc = "generate" /\ h.role = "backup") =>
                 main # <<>> /\ TerminalFailure(Last(main))
           /\ h.pc = "generate" =>
                 /\ Len(dispatch) < 2 * InteractiveRetries
                 /\ h.attempt = Len(CallsOf(h, h.role)) + 1
                 /\ h.result = NoResult /\ h.backupError = NoError
           /\ (h.kind = "text" /\ h.pc \notin {"idle", "generate"}) =>
                 /\ dispatch # <<>>
                 /\ IF Last(dispatch).kind = "ok"
                    THEN /\ h.result.response = Last(dispatch).text
                         /\ h.backupError = NoError
                    ELSE /\ h.result = NoResult
                         /\ h.backupError # NoError
                         /\ h.caught # NoError
                         /\ Last(dispatch).role = "backup"
                         /\ TerminalFailure(Last(dispatch))

\* three transient failures of the primary and three of the backup: the
\* dispatch has ended with an error after six calls
C32_Witness ==
    \E s \in Slots :
        LET h == run[s]
        IN /\ Len(CallsOf(h, "main")) = InteractiveRetries
           /\ Len(CallsOf(h, "backup")) = InteractiveRetries
           /\ \A i \in DOMAIN h.calls : TransientCall(h.calls[i])
           /\ h.backupError # NoError
           /\ h.pc = "deliver" /\ h.sending = "error"


(***************************************************************************)
(* Properties of a pass whose summarization call failed (checked under     *)
(* SpecConsol).                                                            *)
(***************************************************************************)
BareSeq(history) == [i \in DOMAIN history |-> Bare(history[i])]

\* C33: when the summarization call of a day group fails during a pass,
\* history is what it was when the pass began: the step that ends the pass
\* leaves history as it found it, and history holds the turns, in the order,
\* that the pass read at its start, also when the summaries of earlier day
\* groups of that pass were stored.
C33_FailedPassKeepsHistory ==
    [][\A s \in Slots :
          LET h == run[s]
              u == h.user
          IN (h.pc = "summarize" /\ run'[s].pass.status = "failed") =>
                /\ Last(run'[s].calls).kind = "error"
                /\ BareSeq(globalContext'[u].history) = BareSeq(h.pass.before)
                /\ BareSeq(globalContext'[u].history) =
                       BareSeq(globalContext[u].history)
                /\ Len(globalContext'[u].history) > 0]_vars

\* the call for the first day group was answered and stored, the call for
\* the second failed, and the turns of both days are still in history
C33_Witness ==
    \E s \in Slots :
        LET h == run[s]
        IN /\ h.pass.status = "failed"
           /\ Len(h.pass.attempted) = 2
           /\ Len(globalContext[h.user].memories) > Len(h.pass.memoriesBefore)
           /\ Cardinality(DaysOf(globalContext[h.user].history)) = 2
           /\ BareSeq(globalContext[h.user].history) = BareSeq(h.pass.before)


\* C34: a pass started by the threshold that fails does not fail the text
\* update that started it: the two turns of the update are the last two of
\* history, the handler goes on to send its reply with no error caught, the
\* reply is what is shown when the platform delivers it, and an error
\* message is shown in that update only for a delivery the platform refused.
C34_FailedPassKeepsUpdate ==
    \A s \in Slots :
        LET h == run[s]
            history == globalContext[h.user].history
            n == Len(history)
        IN (h.kind = "text" /\ h.pass.status = "failed") =>
              /\ n >= 2
              /\ Bare(history[n - 1]) =
                     Bare(Turn(h.user, h.userMessage, h.messageDate))
              /\ history[n].role = Hermione
              /\ history[n].content = h.botReply
              /\ h.pc \in {"deliver", "persist"}
              /\ h.caught # NoError => h.caught.role = "platform"
              /\ (h.pc = "deliver" /\ h.caught = NoError) => h.sending = "reply"
              /\ (h.pc = "persist" /\ h.caught = NoError) => h.shown = <<"reply">>
              /\ h.shown \in {<<>>, <<"reply">>, <<"error_generic">>}
              /\ h.shown = <<"error_generic">> => h.caught.role = "platform"

\* the pass of the update that reached the threshold failed, and the reply
\* of that update has been delivered
C34_Witness ==
    \E s \in Slots :
        /\ run[s].kind = "text"
        /\ run[s].counted >= SummaryThreshold
        /\ run[s].pass.status = "failed"
        /\ run[s].pass.error.status = 503
        /\ run[s].shown = <<"reply">>
        /\ run[s].caught = NoError


\* C35: the refresh_memories handler shows the success status only when its
\* pass completed with no summarization call failed, and it has shown no
\* success status when the pass failed.
C35_SuccessOnlyAfterCompletedPass ==
    \A s \in Slots :
        LET h == run[s]
        IN h.kind = "refresh" =>
              /\ "memories_updated" \in Range(h.shown) =>
                     h.pass.status = "completed"
              /\ h.pass.status = "failed" =>
                     "memories_updated" \notin Range(h.shown)


(***************************************************************************)
(* Properties of the deletion of today's turns (checked under              *)
(* SpecThreshold).                                                         *)
(***************************************************************************)
DatedToday(turn) == datePart(turn.date) = toLocaleDateString(today)

\* the places in history of the turns that are not dated today
KeptPlaces(history) == {i \in DOMAIN history : ~DatedToday(history[i])}

\* C36: delete_today_messages on a session with history leaves in history
\* the turns that are not dated today, each of them once and in the order
\* they had, and no turn dated today; memories, the counter, the generation
\* parameters, the two providers and the pending flag are what they were.
C36_OnlyTodaysTurnsRemoved ==
    [][\A s \in Slots, u \in Users :
          (/\ run[s].pc = "idle"
           /\ run'[s].kind = "delete_today" /\ run'[s].user = u
           /\ u \in DOMAIN globalContext) =>
             LET before == globalContext[u]
                 after == globalContext'[u]
                 kept == KeptPlaces(before.history)
             IN /\ Len(after.history) = Cardinality(kept)
                /\ \A i \in DOMAIN after.history : ~DatedToday(after.history[i])
                /\ \A i \in kept :
                      after.history[Cardinality({j \in kept : j <= i})] =
                          before.history[i]
                /\ [after EXCEPT !.history = <<>>] =
                       [before EXCEPT !.history = <<>>]
                /\ Len(before.history) > 0 =>
                       run'[s].shown = <<"deleted_today">>]_vars

\* turns of two days were in history; the two of today are gone, the two of
\* the day before are kept, and the counter still counts all four
C36_Witness ==
    \E s \in Slots :
        LET h == run[s]
            session == globalContext[h.user]
        IN /\ h.kind = "delete_today"
           /\ h.shown = <<"deleted_today">>
           /\ Len(h.entry.history) = 4
           /\ Len(session.history) = 2
           /\ session.history = SubSeq(h.entry.history, 1, 2)
           /\ DatedToday(h.entry.history[3])
           /\ session.messageCountSinceSummary = 4


(***************************************************************************)
(* The handlers of the generation parameters and of the cancelled          *)
(* clearing.                                                               *)
(***************************************************************************)
\* ctx.callbackQuery.data.split('_').pop() is the payload: what follows the
\* last underscore of the callback data.

\* set_max_tokens_: lines 1051-1056
setMaxTokens(session, payload) ==
    [session |-> [session EXCEPT !.maxOutputTokens = parseInt(payload)],
     saved |-> TRUE, notice |-> "max_tokens_set"]

\* newValue < 0 || newValue > 2: both comparisons are false for NaN
temperatureOutOfRange(newValue) ==
    IF newValue.nan THEN FALSE
    ELSE newValue.value < 0 \/ newValue.value > 20

\* set_temperature_: lines 1070-1084
setTemperature(session, payload) ==
    LET newValue == parseFloat(payload)
    IN IF temperatureOutOfRange(newValue)
       THEN [session |-> session, saved |-> FALSE,
             notice |-> "temperature_rejected"]
       ELSE [session |-> [session EXCEPT !.temperature = newValue],
             saved |-> TRUE, notice |-> "temperature_set"]

paramStep(s, u, kind, r, entry, context) ==
    /\ globalContext' = [context EXCEPT ![u] = r.session]
    /\ contextFile' = IF r.saved THEN saveContext(globalContext')
                      ELSE contextFile
    /\ run' = [run EXCEPT ![s] =
           [IdleRun EXCEPT !.pc = "persist", !.kind = kind, !.user = u,
               !.entry = entry, !.shown = <<r.notice>>]]
    /\ UNCHANGED <<today, audit>>

ReceiveSetMaxTokens(s, u, payload) ==
    /\ FreeSlot(s)
    /\ LET context == sessionMiddleware(globalContext, u)
       IN paramStep(s, u, "set_max_tokens", setMaxTokens(context[u], payload),
                    entryOf(context[u]), context)

ReceiveSetTemperature(s, u, payload) ==
    /\ FreeSlot(s)
    /\ LET context == sessionMiddleware(globalContext, u)
       IN paramStep(s, u, "set_temperature", setTemperature(context[u], payload),
                    entryOf(context[u]), context)

\* cancel_clear_memories: two messages, no write
ReceiveCancelClear(s, u) ==
    /\ FreeSlot(s)
    /\ globalContext' = sessionMiddleware(globalContext, u)
    /\ run' = [run EXCEPT ![s] =
           [IdleRun EXCEPT !.pc = "persist", !.kind = "cancel_clear",
               !.user = u, !.entry = entryOf(globalContext'[u]),
               !.shown = <<"clear_cancelled">>]]
    /\ UNCHANGED <<contextFile, today, audit>>

(***************************************************************************)
(* SpecParams: the generation parameters set from the keyboard values and  *)
(* from payloads no keyboard offers (zero, a negative number, a number     *)
(* above the range, a word), the primary provider changed, and a session   *)
(* with history and memories cleared or kept.                              *)
(***************************************************************************)
MaxTokensPayloads == {<<"100">>, <<"0">>, <<"-1">>, <<"w">>}

TemperaturePayloads == {<<"0.1">>, <<"0">>, <<"-1">>, <<"2.1">>, <<"w">>}

NextParams ==
    \/ \E s \in Slots, u \in Users :
          Sequential /\ HasRoom(u) /\ ReceiveText(s, u, <<"w">>, today)
    \/ \E s \in Slots : ModelResponds(s, OkOutcome(<<"w">>))
    \/ \E s \in Slots : SummaryResponds(s, OkOutcome(<<"w">>))
    \/ \E s \in Slots : Deliver(s, TRUE)
    \/ \E s \in Slots : Persist(s)
    \/ \E s \in Slots, u \in Users : Sequential /\ ReceiveRefresh(s, u)
    \/ \E s \in Slots, u \in Users, payload \in MaxTokensPayloads :
          Sequential /\ ReceiveSetMaxTokens(s, u, payload)
    \/ \E s \in Slots, u \in Users, payload \in TemperaturePayloads :
          Sequential /\ ReceiveSetTemperature(s, u, payload)
    \/ \E s \in Slots, u \in Users, m \in ModelNames :
          Sequential /\ ReceiveSetMainModel(s, u, m)
    \/ \E s \in Slots, u \in Users : Sequential /\ ReceiveClearAll(s, u)
    \/ \E s \in Slots, u \in Users : Sequential /\ ReceiveCancelClear(s, u)

SpecParams == Init /\ [][NextParams]_vars

(***************************************************************************)
(* Properties of the clearing and of the generation parameters (checked    *)
(* under SpecParams).                                                      *)
(***************************************************************************)
Settings(session) ==
    <<session.maxOutputTokens, session.temperature, session.mainModel,
      session.backupModel>>

\* C37: confirm_clear_memories leaves the session with an empty history, no
\* memories and the counter at 0, and with the maxOutputTokens, temperature,
\* primary and backup provider it had; cancel_clear_memories leaves the
\* session of the user and the state file as they were.
C37_ClearKeepsSettings ==
    [][\A s \in Slots, u \in Users :
          (run[s].pc = "idle" /\ run'[s].user = u /\ u \in DOMAIN globalContext) =>
             LET before == globalContext[u]
                 after == globalContext'[u]
             IN /\ run'[s].kind = "clear_all" =>
                      /\ after.history = <<>>
                      /\ after.memories = <<>>
                      /\ after.messageCountSinceSummary = 0
                      /\ Settings(after) = Settings(before)
                      /\ contextFile'[u] = after
                /\ run'[s].kind = "cancel_clear" =>
                      /\ after = before
                      /\ contextFile' = contextFile]_vars

\* a session with turns, a memory, and parameters and a primary provider
\* that are not the defaults has been cleared: the parameters and the
\* provider are still what the user had set
C37_Witness ==
    \E s \in Slots :
        LET h == run[s]
            session == globalContext[h.user]
        IN /\ h.kind = "clear_all"
           /\ h.entry.history # <<>> /\ h.entry.memories # <<>>
           /\ h.entry.messageCountSinceSummary > 0
           /\ session.history = <<>> /\ session.memories = <<>>
           /\ session.messageCountSinceSummary = 0
           /\ session.maxOutputTokens = Number(100)
           /\ session.temperature = Number(1)
           /\ session.mainModel = Deepseek

\* C38: in a session created with the defaults maxOutputTokens is a positive
\* integer and temperature is a number from 0 to 2, whatever payloads the
\* set_max_tokens_ and set_temperature_ callbacks have carried.
C38_ParametersInRange ==
    \A u \in DOMAIN globalContext :
        LET session == globalContext[u]
        IN /\ ~session.maxOutputTokens.nan
           /\ session.maxOutputTokens.value > 0
           /\ ~session.temperature.nan
           /\ session.temperature.value \in 0..20

====
